---- MODULE Spec2Model ----
(***************************************************************************)
(* State-machine model of the job orchestration of discord-encoder-bot:    *)
(*   src/encoder.py     FastVideoEncoder  (encode registry, ffmpeg driver) *)
(*   src/downloader.py  download_magnet_fast, SimpleDownloadManager        *)
(*   src/uploader.py    UploadManager, VideoUploadBot.upload_video         *)
(*                      GoogleDriveUploader.upload_with_progress           *)
(* Each subsystem has its own next-state relation and specification        *)
(* (SpecEnc, SpecGate, SpecDl, SpecUp, SpecXfer); the variables of the     *)
(* other subsystems stay unchanged under it.                               *)
(***************************************************************************)
EXTENDS Integers, Sequences, FiniteSets, TLC

(***************************************************************************)
(* Bounds of the model (not program constants).                            *)
(***************************************************************************)
\* number of encode_single_pass calls whose worker thread and ffmpeg process
\* are followed step by step (SpecEnc)
MaxJobs == 2
\* last value of the wall clock, in whole seconds (int(time.time()))
MaxClock == 2
\* number of stop_encode / cleanup_all_processes calls and task cancellations
MaxAdmin == 1
\* number of download_magnet_fast calls
MaxDownloads == 2
\* number of distinct values str(uuid.uuid4())[:8] takes
MaxUuid == 2
\* number of upload_video calls
MaxUploads == 2
\* number of upload_video calls whose upload_with_progress is followed step
\* by step (SpecXfer)
MaxTransfers == 1
\* number of chunks of the uploaded file (file_size / chunk_size, rounded up)
MaxChunks == 3
\* largest time= value on ffmpeg's stderr, in seconds
MaxTime == 1
\* number of encodes whose registry entries are followed through the dict a
\* status query returned
MaxEntries == 2
\* number of entries of the output directory
MaxFiles == 3
\* seconds of wall-clock time that pass between two looks of the model at
\* the monitoring loop of a download (the loop itself turns every 2-4 s)
Quantum == 600

Jobs == 1..MaxJobs
Seconds == 0..MaxClock

(***************************************************************************)
(* Program constants.                                                      *)
(***************************************************************************)
\* encoder.py:37  self.max_concurrent_encodes = 3
max_concurrent_encodes == 3
\* encoder.py:40  ThreadPoolExecutor(max_workers=self.max_concurrent_encodes)
max_workers == max_concurrent_encodes
\* encoder.py:442  user_info.replace(' ', '_')[:8]
IdPrefixLen == 8
\* uploader.py:192  max_retries: int = 3
default_max_retries == 3
\* uploader.py:280  if stall_count > 50
stall_limit == 50
\* uploader.py:290  if retry_chunk_count >= 5
server_retry_limit == 5
\* uploader.py:301  if retry_chunk_count >= 3
other_retry_limit == 3
\* uploader.py:292  min(retry_chunk_count * 2, 10)
max_backoff == 10
\* downloader.py:120  max_idle_time = 300
max_idle_time == 300
\* downloader.py:121  max_total_time = 1800
max_total_time == 1800
\* encoder.py:340  if file_size > 10240
min_output_size == 10240
\* downloader.py:294  if age_hours <= 3
recent_hours == 3
\* downloader.py:333  size > 10 * 1024 * 1024
desperate_mb == 10
\* downloader.py:333  age <= 2
desperate_hours == 2

\* the calls at the admission gate: one more than the gate admits
Calls == 1..(max_concurrent_encodes + 1)

(***************************************************************************)
(* user_info strings, as sequences of characters.  The two differ as       *)
(* strings and agree after replace(' ', '_')[:8].                          *)
(***************************************************************************)
UserInfos ==
    { <<"a","n","n","a"," ","k","a","y","a">>,
      <<"a","n","n","a","_","k","a","y","e">> }

\* str.replace(' ', '_')
ReplaceSpaces(s) == [i \in 1..Len(s) |-> IF s[i] = " " THEN "_" ELSE s[i]]

\* s[:n]
Prefix(s, n) == SubSeq(s, 1, IF Len(s) < n THEN Len(s) ELSE n)

\* encoder.py:442  encode_id = f"{int(time.time())}_{user_info.replace(' ', '_')[:8]}"
EncodeId(t, user_info) == <<t, Prefix(ReplaceSpaces(user_info), IdPrefixLen)>>

VARIABLES
    \* ---- encoder.py ----
    clock,           \* int(time.time())
    active_encodes,  \* FastVideoEncoder.active_encodes: encode_id -> status
    encode_lock,     \* FastVideoEncoder.encode_lock: "free" or its holder
    executor_queue,  \* work items waiting in the ThreadPoolExecutor
    pc,              \* position of each encode_single_pass coroutine
    encode_id,       \* the encode_id local of each call
    result,          \* what each encode_single_pass call ended with
    wpc,             \* position of each _run_simple_encoding worker thread
    wres,            \* result dict returned by the worker thread
    progress_percent, \* the percent progress_callback stored last
    proc,            \* the ffmpeg process spawned for each call
    termSent,        \* terminate() was sent to the process
    killSent,        \* kill() was sent to the process
    graceWaited,     \* a grace sleep ran between terminate() and now
    stopAck,         \* stop_encode returned True while the job's loop ran
    stopper,         \* stop_encode in progress: <<>> or <<id, call>>
    cleaner,         \* cleanup_all_processes position
    admin,           \* stop / cleanup / cancel operations issued so far
    \* ---- downloader.py ----
    active_downloads, \* SimpleDownloadManager.active_downloads: id -> process
    dpc,             \* position of each download_magnet_fast coroutine
    download_id,     \* the download_id local of each call
    dresult,         \* what each download_magnet_fast call ended with
    dproc,           \* the aria2c process of each call
    dterm,           \* process.terminate() was sent
    dkill,           \* process.kill() was sent
    dgrace,          \* the 10 s wait after terminate() ran to its timeout
    elapsed,         \* current_time - start_time at the top of the loop
    idle,            \* seconds since aria2c last wrote a line of output
    dwhy,            \* how the monitoring loop of each call was left
    \* ---- uploader.py ----
    active_uploads,  \* UploadManager.active_uploads: upload_id -> status
    upc,             \* position of each upload_video coroutine
    upload_id,       \* the upload_id local of each call
    uresult,         \* what each upload_video call ended with
    \* ---- uploader.py, upload_with_progress ----
    service,         \* GoogleDriveUploader.service is set (not None)
    xpc,             \* position of the upload_with_progress call
    xcaller,         \* the upload_video call that awaits it
    max_retries,     \* its max_retries argument
    attempt,         \* the variable of the for loop
    session,         \* the attempt that created request (the upload session)
    resumable_progress, \* chunks the session has accepted
    last_progress,   \* percent
    stall_count,
    retry_chunk_count,
    xresult,         \* what upload_with_progress returned
    chunk_error,     \* the exception the last next_chunk call raised
    reauths,         \* authenticate() calls of this call that followed a 401
    last_event,      \* the percent handed to progress_callback last
    srv_run,         \* server errors of next_chunk since it last returned
    other_seen,      \* another exception of next_chunk since it last returned
    backoffs,        \* sleeps of line 292 since next_chunk last returned
    backoff_delay,   \* seconds of the last of them
    \* ---- downloader.py, find_downloaded_file ----
    output_dir,      \* the files of the output directory: name -> file
    custom_name,     \* the custom_name argument of download_magnet_fast
    fpc,             \* position of the download_magnet_fast call
    return_code,     \* process.returncode
    result_file,     \* what find_downloaded_file returned
    fresult,         \* what download_magnet_fast returned
    \* ---- status queries ----
    encodes_info,    \* the dict get_active_encodes_info returned
    uploads_info,    \* the dict get_active_uploads returned
    active_downloads_info, \* what get_active_downloads_info returned
    \* ---- uploader.py, the lock of GoogleDriveUploader ----
    self_lock,       \* self._lock: 0 (free) or the call that holds it
    lpc,             \* position of each upload_with_progress call
    lattempt,        \* the attempt of each call
    lresult,         \* what each call returned
    loop_blocked,    \* the call in whose acquire() the event-loop thread sits
    \* ---- encoder.py, the output file of each encode ----
    output_file      \* os.path.getsize(output_path), -1 while there is none

loopVars == <<pc, encode_id, result>>
workerVars == <<executor_queue, wpc, wres, progress_percent>>
procVars == <<proc, termSent, killSent, graceWaited>>
adminVars == <<stopAck, stopper, cleaner, admin>>
encVars == <<active_encodes, encode_lock, loopVars, workerVars, procVars,
             adminVars>>

monitorVars == <<elapsed, idle, dwhy>>
dlVars == <<active_downloads, dpc, download_id, dresult, dproc, dterm, dkill,
            dgrace, monitorVars>>
xferLocals == <<xpc, xcaller, max_retries, attempt, session,
                resumable_progress, last_progress, stall_count,
                retry_chunk_count, xresult>>
xferHistory == <<chunk_error, reauths, last_event, srv_run, other_seen,
                 backoffs, backoff_delay>>
xferVars == <<service, xferLocals, xferHistory>>
upVars == <<active_uploads, upc, upload_id, uresult, xferVars>>

findVars == <<output_dir, custom_name, fpc, return_code, result_file, fresult>>
\* the variables of the specifications that follow one operation closely
snapVars == <<encodes_info, uploads_info>>
lockVars == <<self_lock, lpc, lattempt, lresult, loop_blocked>>
closeVars == <<findVars, snapVars, active_downloads_info, lockVars,
               output_file>>

vars == <<clock, encVars, dlVars, upVars, closeVars>>

\* what a step of the encoder, of a download, of an upload leaves alone
notEnc == <<dlVars, upVars, closeVars>>
notDl == <<clock, encVars, upVars, closeVars>>
notUp == <<encVars, dlVars, closeVars>>
notFind == <<clock, encVars, dlVars, upVars, snapVars,
             active_downloads_info, lockVars, output_file>>
\* the registries aside
notSnap == <<clock, encode_lock, loopVars, workerVars, procVars, adminVars,
             dlVars, upc, upload_id, uresult, xferVars, findVars,
             active_downloads_info, lockVars, output_file>>

Downloads == 1..MaxDownloads
Uuids == 1..MaxUuid
Uploads == 1..MaxUploads
Transfers == 1..MaxTransfers

NoId == <<>>

\* min(a, b)
Min(a, b) == IF a < b THEN a ELSE b

InitEnc ==
    /\ clock = 0
    /\ active_encodes = <<>>
    /\ encode_lock = "free"
    /\ executor_queue = <<>>
    /\ pc = [c \in Calls |-> "idle"]
    /\ encode_id = [c \in Calls |-> NoId]
    /\ result = [c \in Calls |-> "none"]
    /\ wpc = [c \in Calls |-> "none"]
    /\ wres = [c \in Calls |-> "none"]
    /\ progress_percent = [c \in Calls |-> 0]
    /\ proc = [c \in Calls |-> "none"]
    /\ termSent = [c \in Calls |-> FALSE]
    /\ killSent = [c \in Calls |-> FALSE]
    /\ graceWaited = [c \in Calls |-> FALSE]
    /\ stopAck = [c \in Calls |-> FALSE]
    /\ stopper = <<>>
    /\ cleaner = <<>>
    /\ admin = 0

InitDl ==
    /\ active_downloads = <<>>
    /\ dpc = [c \in Downloads |-> "idle"]
    /\ download_id = [c \in Downloads |-> 0]
    /\ dresult = [c \in Downloads |-> "none"]
    /\ dproc = [c \in Downloads |-> "none"]
    /\ dterm = [c \in Downloads |-> FALSE]
    /\ dkill = [c \in Downloads |-> FALSE]
    /\ dgrace = [c \in Downloads |-> FALSE]
    /\ elapsed = [c \in Downloads |-> 0]
    /\ idle = [c \in Downloads |-> 0]
    /\ dwhy = [c \in Downloads |-> "none"]

InitUp ==
    /\ active_uploads = <<>>
    /\ upc = [c \in Uploads |-> "idle"]
    /\ upload_id = [c \in Uploads |-> NoId]
    /\ uresult = [c \in Uploads |-> "none"]

NoEvent == -1

\* the locals of upload_with_progress before a call
InitXferLocals ==
    /\ xpc = "idle"
    /\ xcaller = 0
    /\ max_retries = default_max_retries
    /\ attempt = 0
    /\ session = 0
    /\ resumable_progress = 0
    /\ last_progress = 0
    /\ stall_count = 0
    /\ retry_chunk_count = 0
    /\ xresult = "none"
    /\ chunk_error = "none"
    /\ reauths = 0
    /\ last_event = NoEvent
    /\ srv_run = 0
    /\ other_seen = FALSE
    /\ backoffs = 0
    /\ backoff_delay = 0

InitXfer ==
    /\ service = FALSE
    /\ InitXferLocals

\* no file is known to be there
EmptyDir == <<>>

\* find_downloaded_file returns None
None == <<>>

\* download_magnet_fast has not returned
NoResult == [ok |-> FALSE, file |-> None, why |-> "none"]

InitFind ==
    /\ output_dir = EmptyDir
    /\ custom_name = ""
    /\ fpc = "idle"
    /\ return_code = "None"
    /\ result_file = None
    /\ fresult = NoResult

\* no status query has returned yet
NoSnapshot ==
    [taken |-> FALSE, entries |-> <<>>, shared |-> {}, returned |-> <<>>]

InitSnap ==
    /\ encodes_info = NoSnapshot
    /\ uploads_info = NoSnapshot

\* no /downloads command was given yet
InitInfo ==
    active_downloads_info = [asked |-> FALSE, text |-> "", lines |-> {}]

\* uploader.py:93  self._lock = threading.Lock()
InitLock ==
    /\ self_lock = 0
    /\ lpc = [c \in Uploads |-> "idle"]
    /\ lattempt = [c \in Uploads |-> 0]
    /\ lresult = [c \in Uploads |-> "none"]
    /\ loop_blocked = 0

\* no encode has run: no output file
InitOutput == output_file = [c \in Calls |-> -1]

Init ==
    /\ InitEnc /\ InitDl /\ InitUp /\ InitXfer
    /\ InitFind /\ InitSnap /\ InitInfo /\ InitLock /\ InitOutput

(***************************************************************************)
(* The encode registry (encoder.py:108-131).                               *)
(***************************************************************************)
\* len(self.active_encodes)
get_active_encode_count == Cardinality(DOMAIN active_encodes)

\* an admission test that never rejects
can_start_new_encode_always == TRUE

\* an off-by-one admission test
can_start_new_encode_le == get_active_encode_count <= max_concurrent_encodes

\* encoder.py:108-110
can_start_new_encode == get_active_encode_count < max_concurrent_encodes

\* encoder.py:116-122  self.active_encodes[encode_id] = {... 'status': 'running'}
add_active_encode(reg, id) ==
    [k \in DOMAIN reg \cup {id} |-> IF k = id THEN "running" ELSE reg[k]]

\* encoder.py:124-127
remove_active_encode(reg, id) == [k \in DOMAIN reg \ {id} |-> reg[k]]

\* encoder.py:404  encode_id in self.active_encodes and ...get('status') == 'stopped'
IsStopped(id) == id \in DOMAIN active_encodes /\ active_encodes[id] = "stopped"

InFlight(c) == pc[c] \in {"announce", "monitor", "report"}

(***************************************************************************)
(* encode_single_pass (encoder.py:436-557), a coroutine on the event loop. *)
(***************************************************************************)
\* encoder.py:438-455: admission test, id, file checks, registration.  No
\* await lies between them; can_start_new_encode takes encode_lock.
encode_single_pass_admit(c, user_info, filesExist) ==
    /\ pc[c] = "idle"
    /\ \A d \in Calls : d < c => pc[d] # "idle"
    /\ encode_lock = "free"
    /\ IF ~can_start_new_encode
       THEN /\ pc' = [pc EXCEPT ![c] = "ended"]
            /\ result' = [result EXCEPT ![c] = "limit"]
            /\ UNCHANGED <<active_encodes, encode_id>>
       ELSE IF ~filesExist
       THEN /\ pc' = [pc EXCEPT ![c] = "ended"]
            /\ result' = [result EXCEPT ![c] = "missing_file"]
            /\ UNCHANGED <<active_encodes, encode_id>>
       ELSE /\ encode_id' = [encode_id EXCEPT ![c] = EncodeId(clock, user_info)]
            /\ active_encodes' =
                   add_active_encode(active_encodes, EncodeId(clock, user_info))
            /\ pc' = [pc EXCEPT ![c] = "announce"]
            /\ UNCHANGED result
    /\ UNCHANGED <<clock, encode_lock, workerVars, procVars, adminVars,
                   notEnc>>

\* encoder.py:463-493: await interaction.followup.send, then run_in_executor
encode_single_pass_executor(c) ==
    /\ pc[c] = "announce"
    /\ pc' = [pc EXCEPT ![c] = "monitor"]
    /\ executor_queue' = Append(executor_queue, c)
    /\ wpc' = [wpc EXCEPT ![c] = "queued"]
    /\ UNCHANGED <<clock, active_encodes, encode_lock, encode_id, result,
                   wres, progress_percent, procVars, adminVars, notEnc>>

\* encoder.py:498-526: the sleep(15) loop sees encoding_task.done(), takes
\* the result and calls remove_active_encode
encode_single_pass_finish(c) ==
    /\ pc[c] = "monitor"
    /\ wpc[c] = "done"
    /\ encode_lock = "free"
    /\ active_encodes' = remove_active_encode(active_encodes, encode_id[c])
    /\ pc' = [pc EXCEPT ![c] = "report"]
    /\ UNCHANGED <<clock, encode_lock, encode_id, result, workerVars,
                   procVars, adminVars, notEnc>>

\* encoder.py:528-557: await progress_msg.edit, return (success, message).
\* The locals of the call and the finished executor task go out of scope.
encode_single_pass_return(c) ==
    /\ pc[c] = "report"
    /\ pc' = [pc EXCEPT ![c] = "ended"]
    /\ result' = [result EXCEPT ![c] = wres[c]]
    /\ encode_id' = [encode_id EXCEPT ![c] = NoId]
    /\ wpc' = [wpc EXCEPT ![c] = "none"]
    /\ wres' = [wres EXCEPT ![c] = "none"]
    /\ progress_percent' = [progress_percent EXCEPT ![c] = 0]
    /\ UNCHANGED <<clock, active_encodes, encode_lock, executor_queue,
                   procVars, adminVars, notEnc>>

\* The task awaiting encode_single_pass is cancelled at one of its awaits
\* (477, 517, 522, 541, 554).  CancelledError is no Exception, so the
\* except clauses at 478, 519, 542, 555 let it through; nothing else runs.
encode_single_pass_cancel(c) ==
    /\ InFlight(c)
    /\ admin < MaxAdmin
    /\ admin' = admin + 1
    /\ pc' = [pc EXCEPT ![c] = "ended"]
    /\ result' = [result EXCEPT ![c] = "cancelled"]
    /\ UNCHANGED <<clock, active_encodes, encode_lock, encode_id, workerVars,
                   procVars, stopAck, stopper, cleaner, notEnc>>

(***************************************************************************)
(* The worker thread: _run_simple_encoding (261-361) and                   *)
(* _run_ffmpeg_process (363-434).                                          *)
(***************************************************************************)
Busy == {c \in Calls : wpc[c] \in {"prep", "read", "poll"}}

\* a free ThreadPoolExecutor worker takes the oldest work item
executor_take(c) ==
    /\ executor_queue # <<>>
    /\ Head(executor_queue) = c
    /\ Cardinality(Busy) < max_workers
    /\ executor_queue' = Tail(executor_queue)
    /\ wpc' = [wpc EXCEPT ![c] = "prep"]
    /\ UNCHANGED <<clock, active_encodes, encode_lock, loopVars, wres,
                   progress_percent, procVars, adminVars, notEnc>>

\* encoder.py:262-372: input checks, durations, subtitle validation, Popen.
\* how: "input_error" (277, 290), "process_error" (Popen raises, 432-434),
\* "spawned".
run_simple_encoding_start(c, how) ==
    /\ wpc[c] = "prep"
    /\ IF how = "spawned"
       THEN /\ proc' = [proc EXCEPT ![c] = "running"]
            /\ wpc' = [wpc EXCEPT ![c] = "read"]
            /\ UNCHANGED wres
       ELSE /\ wpc' = [wpc EXCEPT ![c] = "done"]
            /\ wres' = [wres EXCEPT ![c] = how]
            /\ UNCHANGED proc
    /\ UNCHANGED <<clock, active_encodes, encode_lock, loopVars,
                   executor_queue, progress_percent, termSent, killSent,
                   graceWaited, adminVars, notEnc>>

\* the lines of ffmpeg's stderr: one without a time= field (or '' at end
\* of file), or one with time=HH:MM:SS.cc, kept as its value in seconds
Stamps == 0..MaxTime
StderrLines == {<<"other">>} \cup {<<"time", t>> : t \in Stamps}

\* the total_duration of the inputs (encoder.py:279-281, 328)
expected_duration == MaxTime

\* encoder.py:393-396
\*   stage_progress = min((elapsed_time / expected_duration) * 100, 100)
\*   current_progress = min(int(stage_progress), 99)
stage_progress(elapsed_time, duration) ==
    Min(Min((elapsed_time * 100) \div duration, 100), 99)

\* encoder.py:459-461  progress_callback: progress_percent = percent
progress_callback(stored, percent) == percent

\* encoder.py:378-407: readline returns (a line while ffmpeg runs, '' at
\* end of file); a line with time= is turned into a percent and handed to
\* progress_callback (384-399); then the stop test, which reads the registry
\* without the lock.  Popen.terminate() does nothing when the process was
\* already reaped; the function returns without waiting for the process.
run_ffmpeg_process_read(c, line) ==
    /\ wpc[c] = "read"
    /\ proc[c] \in {"running", "exit_ok", "exit_err"}
    /\ progress_percent' = [progress_percent EXCEPT ![c] =
           IF line[1] = "time" /\ expected_duration > 0
           THEN progress_callback(@, stage_progress(line[2], expected_duration))
           ELSE @]
    /\ IF IsStopped(encode_id[c])
       THEN /\ termSent' = [termSent EXCEPT ![c] = @ \/ proc[c] = "running"]
            /\ wres' = [wres EXCEPT ![c] = "stopped"]
            /\ wpc' = [wpc EXCEPT ![c] = "done"]
       ELSE /\ wpc' = [wpc EXCEPT ![c] = "poll"]
            /\ UNCHANGED <<termSent, wres>>
    /\ UNCHANGED <<clock, active_encodes, encode_lock, loopVars,
                   executor_queue, proc, killSent, graceWaited, adminVars,
                   notEnc>>

\* encoder.py:409-427 and 336-357: poll(); after the loop the return code
\* and the output file decide the result; progress_callback(100) comes
\* before the success result (343-344)
run_ffmpeg_process_poll(c, outputOk) ==
    /\ wpc[c] = "poll"
    /\ IF proc[c] = "running"
       THEN /\ wpc' = [wpc EXCEPT ![c] = "read"]
            /\ UNCHANGED <<wres, progress_percent>>
       ELSE /\ wpc' = [wpc EXCEPT ![c] = "done"]
            /\ wres' = [wres EXCEPT ![c] =
                   IF proc[c] = "exit_err" THEN "ffmpeg_error"
                   ELSE IF outputOk THEN "success" ELSE "no_output"]
            /\ progress_percent' = [progress_percent EXCEPT ![c] =
                   IF proc[c] = "exit_ok" /\ outputOk
                   THEN progress_callback(@, 100) ELSE @]
    /\ UNCHANGED <<clock, active_encodes, encode_lock, loopVars,
                   executor_queue, procVars, adminVars, notEnc>>

\* encoder.py:432-434: an exception inside the loop (readline of text=True
\* on undecodable bytes; KeyError at 404 when the entry goes away between
\* the two reads) ends the function; the process is left as it is
run_ffmpeg_process_except(c) ==
    /\ wpc[c] = "read"
    /\ proc[c] = "running"
    /\ wpc' = [wpc EXCEPT ![c] = "done"]
    /\ wres' = [wres EXCEPT ![c] = "process_error"]
    /\ UNCHANGED <<clock, active_encodes, encode_lock, loopVars,
                   executor_queue, progress_percent, procVars, adminVars,
                   notEnc>>

(***************************************************************************)
(* The ffmpeg process (environment).                                       *)
(***************************************************************************)
\* ffmpeg ends by itself with code 0 or with an error code
ffmpeg_exit(c, ok) ==
    /\ proc[c] = "running"
    /\ proc' = [proc EXCEPT ![c] = IF ok THEN "exit_ok" ELSE "exit_err"]
    /\ UNCHANGED <<clock, active_encodes, encode_lock, loopVars, workerVars,
                   termSent, killSent, graceWaited, adminVars, notEnc>>

\* ffmpeg dies of SIGTERM or SIGKILL (a process may ignore SIGTERM: then
\* this step is not taken for it)
ffmpeg_signalled(c) ==
    /\ proc[c] = "running"
    /\ termSent[c] \/ killSent[c]
    /\ proc' = [proc EXCEPT ![c] = "exit_err"]
    /\ UNCHANGED <<clock, active_encodes, encode_lock, loopVars, workerVars,
                   termSent, killSent, graceWaited, adminVars, notEnc>>

(***************************************************************************)
(* stop_encode (encoder.py:133-151).  The whole body runs under            *)
(* encode_lock, the two-second sleep included.                             *)
(***************************************************************************)
AllIds == {EncodeId(t, u) : t \in Seconds, u \in UserInfos}

\* the jobs whose driving loop runs while stop_encode(id) returns True
AckedBy(id) ==
    {c \in Calls : encode_id[c] = id /\ pc[c] = "monitor" /\ wpc[c] \in {"read", "poll"}}

\* encoder.py:149  self.active_encodes[encode_id]['status'] = 'stopped'
mark_stopped(reg, id) == [reg EXCEPT ![id] = "stopped"]

\* encoder.py:135, 151: the id is not registered; returns False
stop_encode_unknown(id) ==
    /\ encode_lock = "free"
    /\ id \notin DOMAIN active_encodes
    /\ admin < MaxAdmin
    /\ admin' = admin + 1
    /\ UNCHANGED <<clock, active_encodes, encode_lock, loopVars, workerVars,
                   procVars, stopAck, stopper, cleaner, notEnc>>

\* encoder.py:135-150 when psutil is missing or no process's command line
\* holds both 'ffmpeg' and the id: the status is set, True is returned
stop_encode_flag(id) ==
    /\ encode_lock = "free"
    /\ id \in DOMAIN active_encodes
    /\ admin < MaxAdmin
    /\ admin' = admin + 1
    /\ active_encodes' = mark_stopped(active_encodes, id)
    /\ stopAck' = [c \in Calls |-> stopAck[c] \/ c \in AckedBy(id)]
    /\ UNCHANGED <<clock, encode_lock, loopVars, workerVars, procVars,
                   stopper, cleaner, notEnc>>

\* encoder.py:136-142: psutil finds the ffmpeg process of call c, whose
\* command line (the caller's file names) holds the id; terminate() is sent
\* and the thread sleeps two seconds with the lock held
stop_encode_terminate(id, c) ==
    /\ encode_lock = "free"
    /\ id \in DOMAIN active_encodes
    /\ encode_id[c] = id
    /\ proc[c] = "running"
    /\ admin < MaxAdmin
    /\ admin' = admin + 1
    /\ encode_lock' = "stop_encode"
    /\ stopper' = <<id, c>>
    /\ termSent' = [termSent EXCEPT ![c] = TRUE]
    /\ UNCHANGED <<clock, active_encodes, loopVars, workerVars, proc,
                   killSent, graceWaited, stopAck, cleaner, notEnc>>

\* encoder.py:143-150: after the sleep, kill() if the process still runs;
\* then the status is set and True is returned
stop_encode_finish ==
    /\ stopper # <<>>
    /\ LET id == stopper[1]
           c == stopper[2]
       IN /\ killSent' = [killSent EXCEPT ![c] = @ \/ proc[c] = "running"]
          /\ graceWaited' = [graceWaited EXCEPT ![c] = TRUE]
          /\ active_encodes' = mark_stopped(active_encodes, id)
          /\ stopAck' = [d \in Calls |-> stopAck[d] \/ d \in AckedBy(id)]
    /\ encode_lock' = "free"
    /\ stopper' = <<>>
    /\ UNCHANGED <<clock, loopVars, workerVars, proc, termSent, cleaner,
                   admin, notEnc>>

(***************************************************************************)
(* cleanup_all_processes (encoder.py:559-592).                             *)
(***************************************************************************)
Running == {c \in Calls : proc[c] = "running"}

\* encoder.py:576-585: the second pass walks psutil.process_iter() again
\* and kills every ffmpeg process that is running then
kill_pass(terminated) == Running

\* encoder.py:562-575: terminate() to every ffmpeg process, then sleep(3)
cleanup_all_processes_begin ==
    /\ cleaner = <<>>
    /\ admin < MaxAdmin
    /\ admin' = admin + 1
    /\ termSent' = [c \in Calls |-> termSent[c] \/ c \in Running]
    /\ cleaner' = <<Running>>
    /\ UNCHANGED <<clock, active_encodes, encode_lock, loopVars, workerVars,
                   proc, killSent, graceWaited, stopAck, stopper, notEnc>>

\* encoder.py:576-590: the kill pass, then active_encodes.clear() under
\* the lock
cleanup_all_processes_finish ==
    /\ cleaner # <<>>
    /\ encode_lock = "free"
    /\ killSent' = [c \in Calls |-> killSent[c] \/ c \in kill_pass(cleaner[1])]
    /\ graceWaited' = [c \in Calls |-> graceWaited[c] \/ c \in cleaner[1]]
    /\ active_encodes' = <<>>
    /\ cleaner' = <<>>
    /\ UNCHANGED <<clock, encode_lock, loopVars, workerVars, proc, termSent,
                   stopAck, stopper, admin, notEnc>>

\* encoder.py:562, 589-590: without psutil only the registry is cleared
cleanup_all_processes_clear ==
    /\ encode_lock = "free"
    /\ admin < MaxAdmin
    /\ admin' = admin + 1
    /\ active_encodes' = <<>>
    /\ UNCHANGED <<clock, encode_lock, loopVars, workerVars, procVars,
                   stopAck, stopper, cleaner, notEnc>>

\* time.time() moves to the next second
tick ==
    /\ clock < MaxClock
    /\ clock' = clock + 1
    /\ UNCHANGED <<encVars, dlVars, upVars, closeVars>>

\* encoder.py:261-361 as one step of the executor: the worker thread runs
\* _run_simple_encoding from its first line to its return.  It never writes
\* the registry; it reads it at 404, where a stopped status ends it.  The
\* last percent of a successful run is 100 (343-344).
run_simple_encoding(c, res) ==
    /\ wpc[c] = "prep"
    /\ res = "stopped" => IsStopped(encode_id[c])
    /\ wpc' = [wpc EXCEPT ![c] = "done"]
    /\ wres' = [wres EXCEPT ![c] = res]
    /\ progress_percent' = [progress_percent EXCEPT ![c] =
           IF res = "success" THEN progress_callback(@, 100) ELSE @]
    /\ UNCHANGED <<clock, active_encodes, encode_lock, loopVars,
                   executor_queue, procVars, adminVars, notEnc>>

\* submissions and completions: the event loop and the executor
JobStep(C) ==
    \/ \E c \in C, u \in UserInfos, f \in BOOLEAN :
           encode_single_pass_admit(c, u, f)
    \/ \E c \in C : encode_single_pass_executor(c)
    \/ \E c \in C : encode_single_pass_finish(c)
    \/ \E c \in C : encode_single_pass_return(c)
    \/ \E c \in C : executor_take(c)
    \/ tick

\* the encoder with every step of the worker thread and of ffmpeg, task
\* cancellation, stop_encode and cleanup_all_processes
NextEnc ==
    \/ JobStep(Jobs)
    \/ \E c \in Jobs : encode_single_pass_cancel(c)
    \/ \E c \in Jobs, how \in {"spawned", "input_error", "process_error"} :
           run_simple_encoding_start(c, how)
    \/ \E c \in Jobs, line \in StderrLines : run_ffmpeg_process_read(c, line)
    \/ \E c \in Jobs, o \in BOOLEAN : run_ffmpeg_process_poll(c, o)
    \/ \E c \in Jobs : run_ffmpeg_process_except(c)
    \/ \E c \in Jobs, ok \in BOOLEAN : ffmpeg_exit(c, ok)
    \/ \E c \in Jobs : ffmpeg_signalled(c)
    \/ \E id \in AllIds : stop_encode_unknown(id)
    \/ \E id \in AllIds : stop_encode_flag(id)
    \/ \E id \in AllIds, c \in Jobs : stop_encode_terminate(id, c)
    \/ stop_encode_finish
    \/ cleanup_all_processes_begin
    \/ cleanup_all_processes_finish
    \/ cleanup_all_processes_clear

SpecEnc == Init /\ [][NextEnc]_vars

\* the admission gate under submissions and completions, with each worker
\* run as one step
NextGate ==
    \/ JobStep(Calls)
    \/ \E c \in Calls, res \in {"success", "ffmpeg_error"} :
           run_simple_encoding(c, res)

SpecGate == Init /\ [][NextGate]_vars

(***************************************************************************)
(* downloader.py: SimpleDownloadManager (13-30) and download_magnet_fast   *)
(* (48-242), a coroutine on the event loop.                                *)
(***************************************************************************)
\* downloader.py:18-20; of the info dict the model keeps 'process'
add_download(reg, id, info) ==
    [k \in DOMAIN reg \cup {id} |-> IF k = id THEN info ELSE reg[k]]

\* downloader.py:22-24  self.active_downloads.pop(download_id, None)
remove_download(reg, id) == [k \in DOMAIN reg \ {id} |-> reg[k]]

\* downloader.py:52-100.  how: "no_aria2" (58-60), "spawn_error"
\* (create_subprocess_exec raises: 238-242), "spawned" (89-100).
\* id is str(uuid.uuid4())[:8].upper().
download_magnet_fast_start(c, id, how) ==
    /\ dpc[c] = "idle"
    /\ \A d \in Downloads : d < c => dpc[d] # "idle"
    /\ download_id' = [download_id EXCEPT ![c] = id]
    /\ IF how = "no_aria2"
       THEN /\ dpc' = [dpc EXCEPT ![c] = "ended"]
            /\ dresult' = [dresult EXCEPT ![c] = "no_aria2"]
            /\ UNCHANGED <<active_downloads, dproc>>
       ELSE IF how = "spawn_error"
       THEN /\ dpc' = [dpc EXCEPT ![c] = "ended"]
            /\ dresult' = [dresult EXCEPT ![c] = "critical_error"]
            /\ active_downloads' = remove_download(active_downloads, id)
            /\ UNCHANGED dproc
       ELSE /\ dproc' = [dproc EXCEPT ![c] = "running"]
            /\ active_downloads' = add_download(active_downloads, id, c)
            /\ dpc' = [dpc EXCEPT ![c] = "announce"]
            /\ UNCHANGED dresult
    /\ UNCHANGED <<dterm, dkill, dgrace, monitorVars, notDl>>

\* downloader.py:104-139: await interaction.followup.send, create_task
download_magnet_fast_announce(c) ==
    /\ dpc[c] = "announce"
    /\ dpc' = [dpc EXCEPT ![c] = "monitor"]
    /\ UNCHANGED <<active_downloads, download_id, dresult, dproc, dterm,
                   dkill, dgrace, monitorVars, notDl>>

\* downloader.py:190-193: output_task.cancel(), remove_download
download_unregister(reg, id) == remove_download(reg, id)

\* a monitoring loop without the test of line 145: the stretch passes and
\* no time is counted against the total budget
download_monitor_wait_unbudgeted(c, output) ==
    /\ dpc[c] = "monitor"
    /\ dproc[c] = "running"
    /\ idle' = [idle EXCEPT ![c] =
           IF output THEN 0 ELSE Min(@ + Quantum, max_idle_time + Quantum)]
    /\ UNCHANGED <<active_downloads, dpc, download_id, dresult, dproc, dterm,
                   dkill, dgrace, elapsed, dwhy, notDl>>

\* downloader.py:141-175: one more stretch of the monitoring loop.  The
\* process runs on and the total budget is not used up (145), so
\* wait_for(process.wait(), 2.0) times out (152) and the loop sleeps (175).
\* The lines read_output collects (124-137) are read by nothing; output
\* says whether aria2c wrote any during the stretch.
download_monitor_wait(c, output) ==
    /\ dpc[c] = "monitor"
    /\ dproc[c] = "running"
    /\ ~(elapsed[c] > max_total_time)
    /\ elapsed' = [elapsed EXCEPT ![c] = @ + Quantum]
    /\ idle' = [idle EXCEPT ![c] =
           IF output THEN 0 ELSE Min(@ + Quantum, max_idle_time + Quantum)]
    /\ UNCHANGED <<active_downloads, dpc, download_id, dresult, dproc, dterm,
                   dkill, dgrace, dwhy, notDl>>

\* downloader.py:141-193: the monitoring loop is left.  why: "exit"
\* (141, 150-151), "timeout" (145-147), "error" (177-179).  A process that
\* still runs gets terminate() and the 10 s wait begins (181-185); else the
\* entry is removed (193).  The times of the loop are read no more.
download_monitor_leave(c, why) ==
    /\ dpc[c] = "monitor"
    /\ why = "exit" => dproc[c] # "running"
    /\ why = "timeout" => elapsed[c] > max_total_time
    /\ dwhy' = [dwhy EXCEPT ![c] = why]
    /\ IF dproc[c] = "running"
       THEN /\ dterm' = [dterm EXCEPT ![c] = TRUE]
            /\ dpc' = [dpc EXCEPT ![c] = "grace"]
            /\ UNCHANGED active_downloads
       ELSE /\ active_downloads' =
                   download_unregister(active_downloads, download_id[c])
            /\ dpc' = [dpc EXCEPT ![c] = "report"]
            /\ UNCHANGED dterm
    /\ elapsed' = [elapsed EXCEPT ![c] = 0]
    /\ idle' = [idle EXCEPT ![c] = 0]
    /\ UNCHANGED <<download_id, dresult, dproc, dkill, dgrace, notDl>>

\* downloader.py:185-193: the 10 s wait ends.  how: "exited" (the process
\* ended in time), "timeout" (asyncio.TimeoutError), "cancelled" (the task
\* is cancelled while it waits); the bare except at 186 takes both of the
\* latter and calls process.kill().  Nothing waits for the killed process.
download_grace_end(c, how) ==
    /\ dpc[c] = "grace"
    /\ how = "exited" => dproc[c] # "running"
    /\ how = "timeout" => dproc[c] = "running"
    /\ dkill' = [dkill EXCEPT ![c] = @ \/ (how # "exited" /\ dproc[c] = "running")]
    /\ dgrace' = [dgrace EXCEPT ![c] = @ \/ how = "timeout"]
    /\ active_downloads' = download_unregister(active_downloads, download_id[c])
    /\ dpc' = [dpc EXCEPT ![c] = "report"]
    /\ UNCHANGED <<download_id, dresult, dproc, dterm, monitorVars, notDl>>

\* downloader.py:195-242: find_downloaded_file, await progress_msg.edit,
\* return.  res: "success" (219), "not_found" (236), "critical_error" (an
\* exception on the way, e.g. os.path.getsize at 201: 238-242).
download_magnet_fast_return(c, res) ==
    /\ dpc[c] = "report"
    /\ dpc' = [dpc EXCEPT ![c] = "ended"]
    /\ dresult' = [dresult EXCEPT ![c] = res]
    /\ active_downloads' =
           IF res = "critical_error"
           THEN remove_download(active_downloads, download_id[c])
           ELSE active_downloads
    /\ UNCHANGED <<download_id, dproc, dterm, dkill, dgrace, monitorVars,
                   notDl>>

\* The task is cancelled at an await of 113, 150, 170, 175, 215 or 232:
\* CancelledError is no Exception, the handlers at 115, 172, 177, 216 and
\* 238 let it through and nothing else of the function runs.
download_magnet_fast_cancel(c) ==
    /\ dpc[c] \in {"announce", "monitor", "report"}
    /\ dpc' = [dpc EXCEPT ![c] = "ended"]
    /\ dresult' = [dresult EXCEPT ![c] = "cancelled"]
    /\ UNCHANGED <<active_downloads, download_id, dproc, dterm, dkill, dgrace,
                   monitorVars, notDl>>

\* aria2c ends by itself
aria2c_exit(c, ok) ==
    /\ dproc[c] = "running"
    /\ dproc' = [dproc EXCEPT ![c] = IF ok THEN "exit_ok" ELSE "exit_err"]
    /\ UNCHANGED <<active_downloads, dpc, download_id, dresult, dterm, dkill,
                   dgrace, monitorVars, notDl>>

\* aria2c dies of SIGTERM or SIGKILL
aria2c_signalled(c) ==
    /\ dproc[c] = "running"
    /\ dterm[c] \/ dkill[c]
    /\ dproc' = [dproc EXCEPT ![c] = "exit_err"]
    /\ UNCHANGED <<active_downloads, dpc, download_id, dresult, dterm, dkill,
                   dgrace, monitorVars, notDl>>

NextDl ==
    \/ \E c \in Downloads, id \in Uuids,
          how \in {"no_aria2", "spawn_error", "spawned"} :
           download_magnet_fast_start(c, id, how)
    \/ \E c \in Downloads : download_magnet_fast_announce(c)
    \/ \E c \in Downloads, output \in BOOLEAN : download_monitor_wait(c, output)
    \/ \E c \in Downloads, why \in {"exit", "timeout", "error"} :
           download_monitor_leave(c, why)
    \/ \E c \in Downloads, how \in {"exited", "timeout", "cancelled"} :
           download_grace_end(c, how)
    \/ \E c \in Downloads, res \in {"success", "not_found", "critical_error"} :
           download_magnet_fast_return(c, res)
    \/ \E c \in Downloads : download_magnet_fast_cancel(c)
    \/ \E c \in Downloads, ok \in BOOLEAN : aria2c_exit(c, ok)
    \/ \E c \in Downloads : aria2c_signalled(c)

SpecDl == Init /\ [][NextDl]_vars

(***************************************************************************)
(* uploader.py: UploadManager (25-83) and VideoUploadBot.upload_video      *)
(* (420-469).                                                              *)
(***************************************************************************)
Videos == {"ep1.mp4", "ep2.mp4"}

\* uploader.py:38-48: the first 16 hex digits of the SHA-256 of the file,
\* or str(int(time.time())) when the file cannot be read
get_file_hash(video, readable) ==
    IF readable THEN <<"sha256", video>> ELSE <<"time", clock>>

\* uploader.py:436  upload_id = f"{int(time.time())}_{get_file_hash(file_path)}"
UploadId(t, video, readable) == <<t, get_file_hash(video, readable)>>

\* uploader.py:50-62; of the entry the model keeps 'status' and 'progress'
add_upload(reg, id) ==
    [k \in DOMAIN reg \cup {id} |->
        IF k = id THEN [status |-> "uploading", progress |-> 0] ELSE reg[k]]

\* uploader.py:64-72
update_upload_progress(reg, id, progress) ==
    IF id \in DOMAIN reg THEN [reg EXCEPT ![id].progress = progress] ELSE reg

\* uploader.py:74-78
remove_upload(reg, id) == [k \in DOMAIN reg \ {id} |-> reg[k]]

\* the removal placed after the await instead of in a finally clause
upload_video_after_await(reg, id, outcome) ==
    IF outcome \in {"exception", "cancelled"} THEN reg ELSE remove_upload(reg, id)

\* uploader.py:468-469  finally: self.manager.remove_upload(upload_id)
upload_video_finally(reg, id, outcome) == remove_upload(reg, id)

\* uploader.py:424-437.  check: "not_found" (425-426), "too_big" (429-431),
\* "empty" (433-434), "ok", and "raised": os.path.getsize raises OSError
\* at 416 or 428, before the try block of 449, and the call ends with it.
upload_video_start(c, video, check, readable) ==
    /\ upc[c] = "idle"
    /\ \A d \in Uploads : d < c => upc[d] # "idle"
    /\ IF check = "ok"
       THEN /\ upload_id' = [upload_id EXCEPT ![c] = UploadId(clock, video, readable)]
            /\ active_uploads' =
                   add_upload(active_uploads, UploadId(clock, video, readable))
            /\ upc' = [upc EXCEPT ![c] = "uploading"]
            /\ UNCHANGED uresult
       ELSE /\ upc' = [upc EXCEPT ![c] = "ended"]
            /\ uresult' = [uresult EXCEPT ![c] = check]
            /\ UNCHANGED <<active_uploads, upload_id>>
    /\ UNCHANGED <<clock, xferVars, notUp>>

\* uploader.py:449-469: the try block ends.  outcome: "unavailable" (450-451),
\* "success" / "failed" (453-462), "exception" (464-466), "cancelled"
\* (CancelledError leaves through the finally clause).
upload_video_end(c, outcome) ==
    /\ upc[c] = "uploading"
    /\ active_uploads' = upload_video_finally(active_uploads, upload_id[c], outcome)
    /\ upc' = [upc EXCEPT ![c] = "ended"]
    /\ uresult' = [uresult EXCEPT ![c] = outcome]
    /\ UNCHANGED <<upload_id, clock, xferVars, notUp>>

NextUp ==
    \/ \E c \in Uploads, v \in Videos,
          check \in {"not_found", "too_big", "empty", "ok", "raised"},
          r \in BOOLEAN :
           upload_video_start(c, v, check, r)
    \/ \E c \in Uploads,
          o \in {"unavailable", "success", "failed", "exception", "cancelled"} :
           upload_video_end(c, o)
    \/ tick

SpecUp == Init /\ [][NextUp]_vars

(***************************************************************************)
(* GoogleDriveUploader.upload_with_progress (uploader.py:191-389), the     *)
(* coroutine upload_video awaits at 453.  One call is followed at a time.  *)
(***************************************************************************)
\* uploader.py:251  progress = int(status.progress() * 100), for a file of
\* MaxChunks chunks of which sent are accepted
progress_of(sent) == (sent * 100) \div MaxChunks

\* HttpError statuses next_chunk raises: "503" stands for the statuses of
\* line 289 (500, 502, 503, 504), "501" for another status >= 500,
\* "403_rate" for a 403 whose text holds 'rate' or 'quota'
ServerErrors == {"503"}
RateLimited == {"429", "403_rate"}
HttpErrors == ServerErrors \cup RateLimited \cup {"401", "403", "404", "501"}
\* other exceptions: "network" has one of the words of line 380 in its text
Exceptions == {"network", "other"}

\* uploader.py:349-387: the handlers of one attempt.  "retry": the for loop
\* goes on with the next attempt; else the reason returned with False.
handle_attempt_error(err, att, retries) ==
    IF err = "403_rate" THEN "quota_or_rate_limit"
    ELSE IF err = "403" THEN "permission_denied"
    ELSE IF err = "404" THEN "endpoint_not_found"
    ELSE IF err = "401"
    THEN IF att < retries - 1 THEN "retry" ELSE "authentication_failed"
    ELSE IF err \in {"503", "501"}
    THEN IF att < retries - 1 THEN "retry" ELSE "server_error"
    ELSE IF err \in HttpErrors THEN "api_error"
    ELSE IF att = retries - 1 THEN "failed_after_attempts"
    ELSE "retry"

\* uploader.py:349-387: an exception left the try block of the attempt; a
\* 401 sets self.service = None (362-363)
attempt_over(err) ==
    LET next == handle_attempt_error(err, attempt, max_retries)
    IN /\ service' = IF err = "401" THEN FALSE ELSE service
       /\ IF next = "retry"
          THEN /\ xpc' = "attempt"
               /\ attempt' = attempt + 1
               /\ UNCHANGED xresult
          ELSE /\ xpc' = "ended"
               /\ xresult' = next
               /\ UNCHANGED attempt

\* uploader.py:191-203: upload_video (453) calls with its file and the
\* default max_retries; file: "ok", "not_found" (195-196), "empty" (199-200)
upload_with_progress_call(c, retries, file) ==
    /\ upc[c] = "uploading"
    /\ xpc = "idle"
    /\ xcaller' = c
    /\ max_retries' = retries
    /\ IF file = "ok"
       THEN /\ xpc' = "attempt"
            /\ UNCHANGED xresult
       ELSE /\ xpc' = "ended"
            /\ xresult' = file
    /\ UNCHANGED <<service, attempt, session, resumable_progress,
                   last_progress, stall_count, retry_chunk_count, xferHistory,
                   active_uploads, upc, upload_id, uresult, clock, notUp>>

\* uploader.py:205-243: the head of one attempt.  Without a service,
\* authenticate() runs (auth: "ok", "failed", "raises"); then a new
\* MediaFileUpload and a new request, that is a new upload session, are
\* made and the locals of the chunk loop start from zero.
upload_attempt_begin(auth) ==
    /\ xpc = "attempt"
    /\ auth = "skipped" <=> service
    /\ reauths' = IF auth = "ok" /\ chunk_error = "401"
                  THEN reauths + 1 ELSE reauths
    /\ IF auth \in {"skipped", "ok"}
       THEN /\ service' = TRUE
            /\ session' = attempt
            /\ resumable_progress' = 0
            /\ last_progress' = 0
            /\ stall_count' = 0
            /\ retry_chunk_count' = 0
            /\ xpc' = "chunk"
            /\ UNCHANGED <<attempt, xresult>>
       ELSE /\ IF auth = "failed"
               THEN /\ UNCHANGED service
                    /\ IF attempt = max_retries - 1
                       THEN /\ xpc' = "ended"
                            /\ xresult' = "authentication_failed_after_retries"
                            /\ UNCHANGED attempt
                       ELSE /\ attempt' = attempt + 1
                            /\ UNCHANGED <<xpc, xresult>>
               ELSE attempt_over("other")
            /\ UNCHANGED <<session, resumable_progress, last_progress,
                           stall_count, retry_chunk_count>>
    /\ srv_run' = 0
    /\ other_seen' = FALSE
    /\ backoffs' = 0
    /\ backoff_delay' = 0
    /\ UNCHANGED <<xcaller, max_retries, chunk_error, last_event,
                   active_uploads, upc, upload_id, uresult, clock, notUp>>

\* uploader.py:441-442  internal_progress_callback
internal_progress_callback(reg, id, progress) ==
    update_upload_progress(reg, id, progress)

\* uploader.py:245-304, and 306-387 when the loop is left: one turn of the
\* chunk loop.  outcome is what request.next_chunk() does: "advance" (the
\* next chunk is accepted: a status, or the response after the last chunk),
\* "bad_response" (a response without an id, 306-307), "same" (a status
\* whose progress is the one before), or the exception it raises.  The
\* sleeps of 283, 292 and 303 are part of the turn.  A chunk takes time:
\* elapsed_time > 0 (255) holds.
next_chunk_step(outcome) ==
    /\ xpc = "chunk"
    /\ outcome = "bad_response" => resumable_progress + 1 = MaxChunks
    /\ LET returned == outcome \in {"advance", "same", "bad_response"}
           sent == IF outcome \in {"advance", "bad_response"}
                   THEN resumable_progress + 1 ELSE resumable_progress
           gotResponse == returned /\ sent = MaxChunks
           gotStatus == returned /\ ~gotResponse
           progress == progress_of(sent)
           advanced == gotStatus /\ progress > last_progress
           same == gotStatus /\ progress = last_progress
           stall == IF advanced THEN 0
                    ELSE IF same THEN Min(stall_count + 1, stall_limit + 1)
                    ELSE stall_count
           \* 280-281: raised inside the try block of 246, so the handler
           \* of 297 takes it
           stalled == same /\ stall > stall_limit
           retries == IF returned
                      THEN (IF stalled THEN 0 + 1 ELSE 0)
                      ELSE retry_chunk_count + 1
           backoff == outcome \in ServerErrors /\ retries < server_retry_limit
           leave == IF outcome \in HttpErrors
                    THEN (IF backoff THEN "stay" ELSE outcome)
                    ELSE IF outcome \in Exceptions
                    THEN (IF retries >= other_retry_limit THEN outcome ELSE "stay")
                    ELSE IF stalled
                    THEN (IF retries >= other_retry_limit THEN "stalled" ELSE "stay")
                    ELSE IF gotResponse
                    THEN (IF outcome = "bad_response" THEN "other" ELSE "success")
                    ELSE "stay"
       IN /\ resumable_progress' = sent
          /\ last_progress' = IF advanced THEN progress ELSE last_progress
          /\ stall_count' = stall
          /\ retry_chunk_count' = retries
          /\ last_event' = IF advanced THEN progress ELSE last_event
          /\ active_uploads' =
                 IF advanced
                 THEN internal_progress_callback(active_uploads,
                                                 upload_id[xcaller], progress)
                 ELSE active_uploads
          /\ chunk_error' = IF returned THEN "none" ELSE outcome
          /\ srv_run' = IF returned THEN 0
                        ELSE IF outcome \in ServerErrors THEN srv_run + 1
                        ELSE srv_run
          /\ other_seen' = IF returned THEN FALSE
                           ELSE other_seen \/ outcome \in Exceptions
          /\ backoffs' = IF returned THEN 0
                         ELSE IF backoff THEN backoffs + 1 ELSE backoffs
          /\ backoff_delay' = IF returned THEN 0
                              ELSE IF backoff THEN Min(retries * 2, max_backoff)
                              ELSE backoff_delay
          /\ IF leave = "stay"
             THEN UNCHANGED <<xpc, attempt, xresult, service>>
             ELSE IF leave = "success"
             THEN /\ xpc' = "ended"
                  /\ xresult' = "success"
                  /\ UNCHANGED <<attempt, service>>
             ELSE attempt_over(leave)
    /\ UNCHANGED <<xcaller, max_retries, session, reauths, upc, upload_id,
                   uresult, clock, notUp>>

\* uploader.py:453-469: upload_with_progress has returned; upload_video
\* logs, returns the pair and its finally clause removes the entry.  The
\* locals of the finished call are gone.
upload_video_return(c) ==
    /\ upc[c] = "uploading"
    /\ xpc = "ended"
    /\ xcaller = c
    /\ active_uploads' = upload_video_finally(active_uploads, upload_id[c],
                             IF xresult = "success" THEN "success" ELSE "failed")
    /\ upc' = [upc EXCEPT ![c] = "ended"]
    /\ uresult' = [uresult EXCEPT ![c] =
           IF xresult = "success" THEN "success" ELSE "failed"]
    /\ xpc' = "idle"
    /\ xcaller' = 0
    /\ max_retries' = default_max_retries
    /\ attempt' = 0
    /\ session' = 0
    /\ resumable_progress' = 0
    /\ last_progress' = 0
    /\ stall_count' = 0
    /\ retry_chunk_count' = 0
    /\ xresult' = "none"
    /\ chunk_error' = "none"
    /\ reauths' = 0
    /\ last_event' = NoEvent
    /\ srv_run' = 0
    /\ other_seen' = FALSE
    /\ backoffs' = 0
    /\ backoff_delay' = 0
    /\ UNCHANGED <<service, upload_id, clock, notUp>>

NextXfer ==
    \/ \E c \in Transfers, v \in Videos,
          check \in {"not_found", "too_big", "empty", "ok", "raised"},
          r \in BOOLEAN :
           upload_video_start(c, v, check, r)
    \/ \E c \in Transfers, retries \in 1..default_max_retries,
          file \in {"ok", "not_found", "empty"} :
           upload_with_progress_call(c, retries, file)
    \/ \E auth \in {"skipped", "ok", "failed", "raises"} :
           upload_attempt_begin(auth)
    \/ \E outcome \in {"advance", "same", "bad_response"}
                      \cup HttpErrors \cup Exceptions :
           next_chunk_step(outcome)
    \/ \E c \in Transfers : upload_video_return(c)

SpecXfer == Init /\ [][NextXfer]_vars

(***************************************************************************)
(* downloader.py: find_downloaded_file (244-369) and the end of            *)
(* download_magnet_fast that calls it (195-236), for one download.         *)
(* A file name is the sequence of its parts between the dots; sizes are in *)
(* MB and ages in minutes.                                                 *)
(***************************************************************************)
FileNames ==
    { <<"X", "mp4">>, <<"Z", "MKV">>, <<"Y", "tmp", "part">>,
      <<"big", "bin">>, <<"episode", "mp4">> }
Sizes == {5, 20}
Ages == {150, 240}
CustomNames == {"", "episode"}
ExitCodes == {"0", "1"}

\* a subdirectory of the output directory
Subdirectory == [isfile |-> FALSE, size |-> 0, age |-> 1, made |-> "before"]

\* what a name of the directory can stand for before the download starts
Leftovers ==
    {Subdirectory} \cup
    [isfile : {TRUE}, size : Sizes, age : Ages, made : {"before"}]

\* what the download itself writes
Written == [isfile : {TRUE}, size : Sizes, age : {1}, made : {"job"}]

\* the entry of the directory for a file first seen under the name f; origin
\* tells the content of a file from that of the others after a rename
dir_entry(f, file) ==
    [isfile |-> file.isfile, size |-> file.size, age |-> file.age,
     made |-> file.made, origin |-> f]

\* str.lower() of one part of a name
lower(part) ==
    CASE part = "MKV" -> "mkv"
      [] part = "X" -> "x"
      [] part = "Y" -> "y"
      [] part = "Z" -> "z"
      [] OTHER -> part

\* downloader.py:246, without the dots
video_extensions ==
    {"mkv", "mp4", "avi", "mov", "wmv", "flv", "webm", "m4v", "ts", "m2ts"}

\* downloader.py:287  any(file.lower().endswith(ext) for ext in video_extensions)
is_video(file) ==
    Len(file) >= 2 /\ lower(file[Len(file)]) \in video_extensions

\* downloader.py:317, without the dots and the star
temp_patterns == {"aria2", "part", "downloading", "tmp"}

\* downloader.py:320  any(pattern.replace('*', '') in file.lower() ...)
is_temp(file) == \E i \in 2..Len(file) : lower(file[i]) \in temp_patterns

\* os.path.splitext(file)[1], without the dot
splitext(file) == IF Len(file) >= 2 THEN file[Len(file)] ELSE ""

\* downloader.py:271-300  candidate_files
candidate_files(dir) == {f \in DOMAIN dir : dir[f].isfile /\ is_video(f)}

\* downloader.py:294-296  recent_files: age_hours <= 3
recent_files(dir) ==
    {f \in candidate_files(dir) : dir[f].age <= recent_hours * 60}

\* downloader.py:312
target_files(dir) ==
    IF recent_files(dir) # {} THEN recent_files(dir) ELSE candidate_files(dir)

\* downloader.py:317-321  temp_files, taken from all_files
temp_files(dir) == {f \in DOMAIN dir : is_temp(f)}

\* a last loop that does not look at the age
large_files(dir) ==
    {f \in DOMAIN dir : dir[f].isfile /\ dir[f].size > desperate_mb}

\* downloader.py:328-335  the files the last loop can return
desperate_files(dir) ==
    {f \in DOMAIN dir : /\ dir[f].isfile
                        /\ dir[f].size > desperate_mb
                        /\ dir[f].age <= desperate_hours * 60}

\* a selection that takes the recency filter for the size order
any_target_file(dir) == target_files(dir)

\* downloader.py:339  max(target_files, key=os.path.getsize): of several
\* files of the largest size, the first in the order of os.listdir
largest_files(dir) ==
    {f \in target_files(dir) :
        \A g \in target_files(dir) : dir[g].size <= dir[f].size}

\* os.remove
remove_file(dir, f) == [g \in DOMAIN dir \ {f} |-> dir[g]]

\* os.rename
rename_file(dir, f, g) ==
    [h \in (DOMAIN dir \ {f}) \cup {g} |-> IF h = g THEN dir[f] ELSE dir[h]]

\* downloader.py:344-363.  fs: "remove_fails" and "rename_fails" are the
\* calls that raise OSError; os.remove raises on a directory as well.
rename_to_custom_name(dir, largest_file, custom, fs) ==
    LET new_path == <<custom, IF splitext(largest_file) = ""
                               THEN "mkv" ELSE splitext(largest_file)>>
        exists == new_path \in DOMAIN dir /\ new_path # largest_file
        remove_raises ==
            exists /\ (fs = "remove_fails" \/ ~dir[new_path].isfile)
        removed == IF exists THEN remove_file(dir, new_path) ELSE dir
    IN  IF custom = ""
        THEN [path |-> largest_file, dir |-> dir]
        ELSE IF remove_raises
        THEN [path |-> largest_file, dir |-> dir]
        ELSE IF new_path # largest_file /\ fs = "rename_fails"
        THEN [path |-> largest_file, dir |-> removed]
        ELSE IF new_path # largest_file
        THEN [path |-> new_path,
              dir |-> rename_file(removed, largest_file, new_path)]
        ELSE [path |-> new_path, dir |-> dir]

\* downloader.py:244-369: the paths find_downloaded_file can return and the
\* directory it leaves.  fs = "listdir_fails": os.listdir raises (365-369).
find_downloaded_file(dir, custom, fs) ==
    IF fs = "listdir_fails"
    THEN {[path |-> None, dir |-> dir]}
    ELSE IF target_files(dir) = {}
    THEN IF temp_files(dir) # {}
         THEN {[path |-> None, dir |-> dir]}
         ELSE IF desperate_files(dir) # {}
         THEN {[path |-> f, dir |-> dir] : f \in desperate_files(dir)}
         ELSE {[path |-> None, dir |-> dir]}
    ELSE {rename_to_custom_name(dir, f, custom, fs) : f \in largest_files(dir)}

\* a file is in the output directory before the download starts: earlier
\* downloads and other programs left it there
leftover_file(f, file) ==
    /\ fpc = "idle"
    /\ f \notin DOMAIN output_dir
    /\ Cardinality(DOMAIN output_dir) < MaxFiles
    /\ output_dir' = [g \in DOMAIN output_dir \cup {f} |->
                         IF g = f THEN dir_entry(f, file) ELSE output_dir[g]]
    /\ UNCHANGED <<custom_name, fpc, return_code, result_file, fresult,
                   notFind>>

\* downloader.py:371-382  custom_name=custom_name or "download"
download_magnet_with_progress(name) == IF name = "" THEN "download" ELSE name

\* downloader.py:48-100: the call, up to the spawned process
download_magnet_fast_call(name) ==
    /\ fpc = "idle"
    /\ custom_name' = download_magnet_with_progress(name)
    /\ fpc' = "running"
    /\ UNCHANGED <<output_dir, return_code, result_file, fresult, notFind>>

\* aria2c writes a file into --dir
aria2c_writes(f, file) ==
    /\ fpc = "running"
    /\ f \notin DOMAIN output_dir
    /\ Cardinality(DOMAIN output_dir) < MaxFiles
    /\ output_dir' = [g \in DOMAIN output_dir \cup {f} |->
                         IF g = f THEN dir_entry(f, file) ELSE output_dir[g]]
    /\ UNCHANGED <<custom_name, fpc, return_code, result_file, fresult,
                   notFind>>

\* downloader.py:141-195: the process has ended, by itself or terminated
\* by the monitoring loop, and process.returncode is read
aria2c_returns(code) ==
    /\ fpc = "running"
    /\ return_code' = code
    /\ fpc' = "exited"
    /\ UNCHANGED <<output_dir, custom_name, result_file, fresult, notFind>>

\* downloader.py:198-236: find_downloaded_file and the pair returned
download_magnet_fast_resolve(fs) ==
    /\ fpc = "exited"
    /\ \E found \in find_downloaded_file(output_dir, custom_name, fs) :
          /\ result_file' = found.path
          /\ output_dir' = found.dir
          /\ fresult' = IF found.path # None
                        THEN [ok |-> TRUE, file |-> found.path,
                              why |-> "success"]
                        ELSE [ok |-> FALSE, file |-> None,
                              why |-> "not_found"]
    /\ fpc' = "ended"
    /\ UNCHANGED <<custom_name, return_code, notFind>>

NextFind ==
    \/ \E f \in FileNames, file \in Leftovers : leftover_file(f, file)
    \/ \E name \in CustomNames : download_magnet_fast_call(name)
    \/ \E f \in FileNames, file \in Written : aria2c_writes(f, file)
    \/ \E code \in ExitCodes : aria2c_returns(code)
    \/ \E fs \in {"ok", "listdir_fails", "remove_fails", "rename_fails"} :
           download_magnet_fast_resolve(fs)

SpecFind == Init /\ [][NextFind]_vars

(***************************************************************************)
(* encoder.py:116-151 and uploader.py:50-83: the two registries as objects *)
(* whose methods are called in any order, and the dicts the status         *)
(* queries return.  dict.copy() makes a new outer dict that holds the same *)
(* entry dicts as the registry.                                            *)
(***************************************************************************)
\* reg.copy(): entries is what the returned dict shows, shared the ids whose
\* entry dict is the one the registry holds, returned the value of every
\* field at the return
copy(reg) ==
    [taken |-> TRUE, entries |-> reg, shared |-> DOMAIN reg, returned |-> reg]

\* a method changed the entry dict of id in place: a dict that holds the
\* same entry dict shows the change
written_in_place(snapshot, reg, id) ==
    IF id \in snapshot.shared
    THEN [snapshot EXCEPT !.entries[id] = reg[id]]
    ELSE snapshot

\* the registry lets go of the entry dict of id (del, or a new dict under
\* the same id)
let_go(snapshot, id) == [snapshot EXCEPT !.shared = @ \ {id}]

\* the encode ids and upload ids of the calls
EncodeIds == {EncodeId(t, u) : t \in 1..MaxEntries, u \in UserInfos}
UploadIds == {UploadId(0, video, TRUE) : video \in Videos}

\* encoder.py:116-122
registry_add_active_encode(id) ==
    /\ encode_lock = "free"
    /\ active_encodes' = add_active_encode(active_encodes, id)
    /\ encodes_info' = let_go(encodes_info, id)
    /\ UNCHANGED <<uploads_info, active_uploads, notSnap>>

\* encoder.py:124-127
registry_remove_active_encode(id) ==
    /\ encode_lock = "free"
    /\ id \in DOMAIN active_encodes
    /\ active_encodes' = remove_active_encode(active_encodes, id)
    /\ encodes_info' = let_go(encodes_info, id)
    /\ UNCHANGED <<uploads_info, active_uploads, notSnap>>

\* encoder.py:133-151, with no ffmpeg process of that id running:
\* self.active_encodes[encode_id]['status'] = 'stopped'
registry_stop_encode(id) ==
    /\ encode_lock = "free"
    /\ id \in DOMAIN active_encodes
    /\ active_encodes' = mark_stopped(active_encodes, id)
    /\ encodes_info' =
           written_in_place(encodes_info, mark_stopped(active_encodes, id), id)
    /\ UNCHANGED <<uploads_info, active_uploads, notSnap>>

\* encoder.py:129-131  return self.active_encodes.copy().  The model follows
\* the first dict a status query returns.
get_active_encodes_info ==
    /\ encode_lock = "free"
    /\ ~encodes_info.taken /\ ~uploads_info.taken
    /\ encodes_info' = copy(active_encodes)
    /\ UNCHANGED <<active_encodes, uploads_info, active_uploads, notSnap>>

\* uploader.py:50-62
registry_add_upload(id) ==
    /\ active_uploads' = add_upload(active_uploads, id)
    /\ uploads_info' = let_go(uploads_info, id)
    /\ UNCHANGED <<encodes_info, active_encodes, notSnap>>

\* uploader.py:64-72  self.active_uploads[upload_id].update({...})
registry_update_upload_progress(id, progress) ==
    /\ id \in DOMAIN active_uploads
    /\ active_uploads' = update_upload_progress(active_uploads, id, progress)
    /\ uploads_info' =
           written_in_place(uploads_info,
               update_upload_progress(active_uploads, id, progress), id)
    /\ UNCHANGED <<encodes_info, active_encodes, notSnap>>

\* uploader.py:74-78
registry_remove_upload(id) ==
    /\ id \in DOMAIN active_uploads
    /\ active_uploads' = remove_upload(active_uploads, id)
    /\ uploads_info' = let_go(uploads_info, id)
    /\ UNCHANGED <<encodes_info, active_encodes, notSnap>>

\* uploader.py:80-83  return self.active_uploads.copy()
get_active_uploads ==
    /\ ~encodes_info.taken /\ ~uploads_info.taken
    /\ uploads_info' = copy(active_uploads)
    /\ UNCHANGED <<encodes_info, active_uploads, active_encodes, notSnap>>

NextSnap ==
    \/ \E id \in EncodeIds : registry_add_active_encode(id)
    \/ \E id \in EncodeIds : registry_remove_active_encode(id)
    \/ \E id \in EncodeIds : registry_stop_encode(id)
    \/ get_active_encodes_info
    \/ \E id \in UploadIds : registry_add_upload(id)
    \/ \E id \in UploadIds, sent \in 1..MaxChunks :
           registry_update_upload_progress(id, progress_of(sent))
    \/ \E id \in UploadIds : registry_remove_upload(id)
    \/ get_active_uploads

SpecSnap == Init /\ [][NextSnap]_vars

(***************************************************************************)
(* downloader.py:384-417 get_active_downloads_info and its caller          *)
(* slash_downloads (bot.py:443-506), next to downloads that are neither    *)
(* cancelled nor run into the time budget.                                 *)
(***************************************************************************)
\* downloader.py:384-412.  loop_is_running: the function is called from a
\* coroutine or callback of the event loop (390).  Of a line of the listing
\* (407) the model keeps the id.
get_active_downloads_info(loop_is_running, downloads) ==
    IF loop_is_running
    THEN [asked |-> TRUE, text |-> "async context", lines |-> {}]
    ELSE IF DOMAIN downloads = {}
    THEN [asked |-> TRUE, text |-> "Aktif indirme yok", lines |-> {}]
    ELSE [asked |-> TRUE, text |-> "listing", lines |-> DOMAIN downloads]

\* bot.py:443-448: slash_downloads is a coroutine of the event loop, which
\* runs while it calls get_active_downloads_info.  The model follows the
\* first /downloads command.
slash_downloads ==
    /\ ~active_downloads_info.asked
    /\ active_downloads_info' =
           get_active_downloads_info(TRUE, active_downloads)
    /\ UNCHANGED <<clock, encVars, dlVars, upVars, findVars, snapVars,
                   lockVars, output_file>>

NextInfo ==
    \/ \E c \in Downloads, id \in Uuids,
          how \in {"no_aria2", "spawn_error", "spawned"} :
           download_magnet_fast_start(c, id, how)
    \/ \E c \in Downloads : download_magnet_fast_announce(c)
    \/ \E c \in Downloads, why \in {"exit", "error"} :
           download_monitor_leave(c, why)
    \/ \E c \in Downloads, how \in {"exited", "timeout"} :
           download_grace_end(c, how)
    \/ \E c \in Downloads, res \in {"success", "not_found", "critical_error"} :
           download_magnet_fast_return(c, res)
    \/ \E c \in Downloads, ok \in BOOLEAN : aria2c_exit(c, ok)
    \/ \E c \in Downloads : aria2c_signalled(c)
    \/ slash_downloads

SpecInfo == Init /\ [][NextInfo]_vars

(***************************************************************************)
(* Claims.                                                                 *)
(***************************************************************************)

\* C1: at every moment the number of encode jobs that encode_single_pass
\* has admitted and that have not yet returned is at most
\* max_concurrent_encodes, also for submissions in the same clock second
\* with the same user_info.
C1_AdmittedWithinLimit ==
    Cardinality({c \in Calls : InFlight(c)}) <= max_concurrent_encodes

\* C2: when active_encodes holds max_concurrent_encodes entries, a further
\* encode_single_pass call ends at once with the limit message: it adds no
\* registry entry, leaves active_encodes as it is, queues no executor task
\* and spawns no ffmpeg.
C2_FullGateRejects ==
    [][\A c \in Calls :
          (/\ pc[c] = "idle"
           /\ pc'[c] # "idle"
           /\ get_active_encode_count >= max_concurrent_encodes)
          => (/\ pc'[c] = "ended"
              /\ result'[c] = "limit"
              /\ active_encodes' = active_encodes
              /\ workerVars' = workerVars
              /\ proc' = proc)]_vars

\* a call was rejected while the registry is full
C2_Witness ==
    \E c \in Calls :
        /\ result[c] = "limit"
        /\ get_active_encode_count = max_concurrent_encodes

\* C3: when an encode_single_pass call that registered an entry ends, on
\* any exit path (cancellation included), the registry holds no entry under
\* its encode_id.
C3_EntryRemovedAtEnd ==
    [][\A c \in Jobs :
          (InFlight(c) /\ pc'[c] = "ended")
          => encode_id[c] \notin DOMAIN active_encodes']_vars

\* C4: the download registry never keeps an entry whose job has returned,
\* on any exit path of download_magnet_fast (cancellation included).
C4_NoEntryOfEndedDownload ==
    \A id \in DOMAIN active_downloads : dpc[active_downloads[id]] # "ended"

\* C5: when an upload_video call that registered an entry ends (success,
\* failure, exception or cancellation), active_uploads holds no entry under
\* its upload_id.
C5_UploadRemovedAtEnd ==
    [][\A c \in Uploads :
          (upc[c] = "uploading" /\ upc'[c] = "ended")
          => upload_id[c] \notin DOMAIN active_uploads']_vars

\* an upload ended by an exception or a cancellation, and its id is gone
C5_Witness ==
    \E c \in Uploads :
        /\ upc[c] = "ended"
        /\ uresult[c] \in {"exception", "cancelled"}
        /\ upload_id[c] \notin DOMAIN active_uploads

\* C6: no two encode jobs that are alive at the same time have the same
\* encode_id.
C6_DistinctIds ==
    \A c, d \in Calls :
        (c # d /\ InFlight(c) /\ InFlight(d)) => encode_id[c] # encode_id[d]

\* C7: if stop_encode(id) returned True while the job's ffmpeg loop was
\* running, the job's terminal result is the stopped outcome, never success
\* and never another failure (calls ended by a cancellation of the task or
\* by an exception inside the loop are left aside).
C7_StopYieldsStopped ==
    \A c \in Jobs :
        (/\ stopAck[c]
         /\ pc[c] = "ended"
         /\ result[c] \notin {"cancelled", "process_error"})
        => result[c] = "stopped"

\* C8: when _run_ffmpeg_process has returned its result, the ffmpeg process
\* it spawned has exited.
C8_ProcessExitedAtReturn ==
    \A c \in Jobs : wpc[c] = "done" => proc[c] # "running"

\* C9: a kill is sent to a process only after a terminate was sent to it
\* and a grace period was waited.
C9_KillOnlyAfterGrace ==
    \A c \in Jobs : killSent[c] => (termSent[c] /\ graceWaited[c])

\* the operation that sent terminate() to the process of c has finished
TerminatorsDone(c) ==
    /\ wpc[c] \in {"done", "none"}
    /\ stopper = <<>>
    /\ cleaner = <<>>

\* C10: once the operation that asked a process to terminate has finished,
\* a process that still runs has been sent a kill.
C10_KillFollowsTerminate ==
    \A c \in Jobs :
        (termSent[c] /\ proc[c] = "running" /\ TerminatorsDone(c))
        => killSent[c]

\* C11: when request.next_chunk has returned a status whose percent does
\* not advance for more than stall_limit consecutive steps,
\* upload_with_progress leaves its chunk loop and returns a failure.
C11_StallEndsUpload ==
    [][(xpc = "chunk" /\ stall_count' > stall_limit)
       => (xpc' = "ended" /\ xresult' # "success")]_vars

\* C12: when a chunk fails with HTTP 401 after some chunks were accepted,
\* the transfer goes on, after the re-authentication, in the same upload
\* session and from the chunks already accepted.
C12_AuthExpiryResumes ==
    [][(/\ xpc = "attempt"
        /\ chunk_error = "401"
        /\ resumable_progress > 0
        /\ xpc' = "chunk")
       => (/\ session' = session
           /\ resumable_progress' = resumable_progress)]_vars

\* C13: during one upload_with_progress call at most one re-authentication
\* follows an HTTP 401, whatever max_retries is.
C13_ReauthAtMostOnce == reauths <= 1

\* C14: for a chunk whose tries fail with server errors only, the k-th
\* server error in a row is followed, when k < server_retry_limit, by a
\* backoff sleep of at most max_backoff seconds, the k-th sleep for that
\* chunk, in the same session and in the chunk loop; when
\* k >= server_retry_limit the error leaves the chunk loop.
C14_ServerErrorBackoff ==
    [][(xpc = "chunk" /\ srv_run' = srv_run + 1 /\ ~other_seen')
       => IF srv_run' < server_retry_limit
          THEN /\ xpc' = "chunk"
               /\ session' = session
               /\ backoffs' = srv_run'
               /\ backoff_delay' \in 1..max_backoff
          ELSE xpc' # "chunk"]_vars

\* C15: upload_with_progress returns a failure for a rate-limiting response
\* (HTTP 429, or 403 with rate or quota in its text) only after the chunk
\* was tried again at least once after such a response.
C15_RateLimitRetried ==
    [][(xpc = "chunk" /\ xpc' = "ended" /\ chunk_error' \in RateLimited)
       => chunk_error \in RateLimited]_vars

\* C16: over one upload_with_progress call, all its attempts included,
\* every percent handed to the progress callback is greater than the one
\* before, lies in 0..100 and is the one update_upload_progress stores.
C16_UploadPercentIncreasing ==
    [][(last_event' # last_event /\ last_event' # NoEvent)
       => (/\ last_event' > last_event
           /\ last_event' \in 0..100
           /\ active_uploads'[upload_id[xcaller]].progress = last_event')]_vars

\* C17: a job that ends in success after at least one progress event has
\* delivered 100 as its last percent: an upload (upload_with_progress) and
\* an encode (_run_simple_encoding) alike.
C17_LastPercentIs100 ==
    /\ (xpc = "ended" /\ xresult = "success" /\ last_event # NoEvent)
       => last_event = 100
    /\ \A c \in Jobs :
           (wpc[c] = "done" /\ wres[c] = "success") => progress_percent[c] = 100

\* C18: the percent values one encode job reports through progress_callback
\* never go down and lie in 0..100, whatever time= values ffmpeg's stderr
\* lines carry and in whatever order.
C18_EncodePercentNonDecreasing ==
    [][\A c \in Jobs :
          (pc[c] = "monitor" /\ pc'[c] = "monitor")
          => (/\ progress_percent'[c] >= progress_percent[c]
              /\ progress_percent'[c] \in 0..100)]_vars

\* C19: a download whose process has written no output for longer than
\* max_idle_time, while it still runs and the total budget is not used up,
\* is ended by the monitoring loop at that point with the idle-timeout
\* outcome (steps that end the call by a cancellation or leave the loop on
\* an exception are left aside).
C19_IdleTimeoutEndsDownload ==
    [][\A c \in Downloads :
          (/\ dpc[c] = "monitor"
           /\ dproc[c] = "running"
           /\ idle[c] > max_idle_time
           /\ ~(elapsed[c] > max_total_time)
           /\ <<dpc[c], elapsed[c]>>' # <<dpc[c], elapsed[c]>>
           /\ dpc'[c] # "ended"
           /\ dwhy'[c] # "error")
          => dwhy'[c] = "idle"]_vars

\* C20: a download whose process was terminated because max_total_time ran
\* out returns a failure that names the timeout: never success, and never
\* the reason of a download that failed without a timeout (calls ended by a
\* cancellation or by an exception on the way out are left aside).
C20_TotalTimeoutFails ==
    \A c \in Downloads :
        (/\ dpc[c] = "ended"
         /\ dwhy[c] = "timeout"
         /\ dterm[c]
         /\ dresult[c] \notin {"cancelled", "critical_error"})
        => dresult[c] \notin {"success", "not_found"}

\* C21: a job whose process exits with a non-zero exit code ends in failure.
\* For an encode the worker returns the FFmpeg error
\* (run_ffmpeg_process_poll); stated here for a download: when aria2c has
\* exited with a non-zero code, download_magnet_fast does not return success.
C21_NonZeroExitFails ==
    (fpc = "ended" /\ return_code # "0") => ~fresult.ok

\* C22: when find_downloaded_file is called on a directory that holds no
\* video candidate and holds a partial-download marker file, and no call of
\* the file system fails, what it returns differs from what it returns for
\* an empty directory ('still in progress' is not 'not found').
C22_PendingIsNotNotFound ==
    (/\ fpc = "exited"
     /\ candidate_files(output_dir) = {}
     /\ temp_files(output_dir) # {})
    => \A pending \in find_downloaded_file(output_dir, custom_name, "ok"),
          missing \in find_downloaded_file(EmptyDir, custom_name, "ok") :
            pending.path # missing.path

\* C23: when find_downloaded_file is called on a directory with at least
\* one allow-listed video file, it returns a path if no call of the file
\* system fails, and every path it returns holds the content of a largest
\* file among the video files modified within the last 3 hours if there is
\* one, and else of a largest among all the video files; the path is that
\* file's own or custom_name with that file's extension.
C23_LargestRecentVideoSelected ==
    [][LET videos == {f \in DOMAIN output_dir :
                         output_dir[f].isfile /\ is_video(f)}
           recent == {f \in videos : output_dir[f].age <= recent_hours * 60}
           pool == IF recent # {} THEN recent ELSE videos
       IN  (fpc = "exited" /\ pool # {}) =>
           /\ \A found \in find_downloaded_file(output_dir, custom_name, "ok") :
                 found.path # None
           /\ (fpc' = "ended" /\ result_file' # None) =>
                 \E f \in pool :
                    /\ \A g \in pool : output_dir[g].size <= output_dir[f].size
                    /\ output_dir'[result_file'].origin = output_dir[f].origin
                    /\ result_file' \in {f, <<custom_name, splitext(f)>>}]_vars

\* a recent video file was selected although an older one is larger
C23_Witness ==
    /\ fpc = "ended"
    /\ result_file # None
    /\ output_dir[result_file].age <= recent_hours * 60
    /\ \E g \in DOMAIN output_dir :
          /\ g # result_file
          /\ output_dir[g].isfile /\ is_video(g)
          /\ output_dir[g].size > output_dir[result_file].size
          /\ output_dir[g].age > recent_hours * 60

\* C24: when find_downloaded_file is called with a custom_name and returns
\* a path, the path is custom_name plus the extension of the file it
\* resolved, that file's content is there and no longer under its old name;
\* or the removal of another file at that path or the rename failed, and the
\* path is the resolved file's own.
C24_ResolvedFileRenamed ==
    (fpc = "exited" /\ custom_name # "") =>
    \A fs \in {"ok", "remove_fails", "rename_fails"} :
    \A found \in find_downloaded_file(output_dir, custom_name, fs) :
       found.path # None =>
       \E f \in DOMAIN output_dir :
          LET new_path == <<custom_name, splitext(f)>>
              other == new_path \in DOMAIN output_dir /\ new_path # f
              failed ==
                 \/ other /\ (fs = "remove_fails" \/ ~output_dir[new_path].isfile)
                 \/ new_path # f /\ fs = "rename_fails"
          IN  /\ found.dir[found.path].origin = output_dir[f].origin
              /\ \/ /\ ~failed
                    /\ found.path = new_path
                    /\ f # new_path => f \notin DOMAIN found.dir
                 \/ /\ failed
                    /\ found.path = f

\* C25: every path find_downloaded_file returns is a regular file of the
\* directory whose extension is in video_extensions.
C25_OnlyVideoFilesReturned ==
    (fpc = "ended" /\ result_file # None) =>
       /\ result_file \in DOMAIN output_dir
       /\ output_dir[result_file].isfile
       /\ is_video(result_file)

\* C25 (amended): every path find_downloaded_file returns is a regular file
\* of the directory.  Its extension is in video_extensions, or the
\* directory holds no video file and no partial-download marker and the
\* file is larger than 10 MB and was modified within the last 2 hours.
C25_VideoOrDesperatePick ==
    (fpc = "ended" /\ result_file # None) =>
       /\ result_file \in DOMAIN output_dir
       /\ output_dir[result_file].isfile
       /\ \/ is_video(result_file)
          \/ /\ \A f \in DOMAIN output_dir :
                   ~(output_dir[f].isfile /\ is_video(f)) /\ ~is_temp(f)
             /\ output_dir[result_file].size > desperate_mb
             /\ output_dir[result_file].age <= desperate_hours * 60

\* a file that is no video file was returned
C25_Witness ==
    /\ fpc = "ended"
    /\ result_file # None
    /\ ~is_video(result_file)

\* C26: a download whose process wrote no file into the output directory
\* does not report success and renames none of the files that were there
\* before it started.
C26_NoSuccessFromLeftovers ==
    [][(/\ fpc = "exited"
        /\ fpc' = "ended"
        /\ \A f \in DOMAIN output_dir : output_dir[f].made = "before")
       => (~fresult'.ok /\ output_dir' = output_dir)]_vars

\* C27: every field of the dict get_active_encodes_info returned and of the
\* dict get_active_uploads returned has the value it had at the return,
\* whatever stop_encode, update_upload_progress, add and remove did since.
C27_SnapshotIsACopy ==
    /\ encodes_info.entries = encodes_info.returned
    /\ uploads_info.entries = uploads_info.returned

\* C28: the listing that get_active_downloads_info returns to the /downloads
\* command holds the id of every download that is registered in
\* active_downloads at the call.
C28_ListingShowsRegistered ==
    [][(~active_downloads_info.asked /\ active_downloads_info'.asked) =>
          \A id \in DOMAIN active_downloads :
             id \in active_downloads_info'.lines]_vars

\* C29: when upload_with_progress has ended with the error that belongs to
\* the exception raised last, no exception of another cause class (quota or
\* rate limit, permission, authentication, server-side, network, any other
\* exception) would have ended it with the same error.  The error is the
\* message the function chooses; the text of the exception, which some of
\* the messages pass on, is left aside.
C29_ErrorTellsCauseClass ==
    LET cause_class(err) ==
            IF err \in RateLimited THEN "quota or rate limit"
            ELSE IF err = "403" THEN "permission"
            ELSE IF err = "401" THEN "authentication"
            ELSE IF err \in {"503", "501"} THEN "server-side"
            ELSE err
    IN  (/\ xpc = "ended"
         /\ chunk_error \in HttpErrors \cup Exceptions
         /\ xresult = handle_attempt_error(chunk_error, attempt, max_retries))
        => \A err \in HttpErrors \cup Exceptions :
              cause_class(err) # cause_class(chunk_error)
              => handle_attempt_error(err, attempt, max_retries) # xresult

\* C30: no failure inside one job leaves the driving function as an
\* exception.  Stated for upload_video and the file-system error while the
\* file to upload is checked: a call that has ended has returned a pair to
\* its caller (a cancelled call aside, which ends with CancelledError).
C30_NoExceptionToCaller ==
    \A c \in Uploads : upc[c] = "ended" => uresult[c] # "raised"

\* C31: when the executable cannot be found or launched (get_aria2_path
\* raises, create_subprocess_exec raises, subprocess.Popen raises), the
\* job ends in failure and afterwards its registry holds no entry for it:
\* an ended encode whose Popen raised has no entry under its encode_id and
\* no process, an ended download whose aria2c never started has none under
\* any id.
C31_SpawnFailureLeavesNoEntry ==
    /\ \A c \in Calls :
           (pc[c] = "ended" /\ wres[c] = "process_error" /\ proc[c] = "none")
               => ~(encode_id[c] \in DOMAIN active_encodes)
    /\ \A d \in Downloads :
           (dpc[d] = "ended" /\ dresult[d] \in {"no_aria2", "critical_error"}
                /\ dproc[d] = "none")
               => \A k \in DOMAIN active_downloads : active_downloads[k] # d

(***************************************************************************)
(* Termination of download_magnet_fast: one call and its aria2c process,   *)
(* with the event loop running the coroutine whenever it can go on.        *)
(***************************************************************************)
\* the call that is followed
Watched == {1}

\* downloader.py:141-175: one turn of the monitoring loop as the event loop
\* runs it: the budget test of 145, wait_for(process.wait(), 2.0) of 150
\* (at most 2 s) and sleep(2) of 175.  The turn leaves the loop when the
\* process has ended or the budget is used up, and goes round otherwise.
download_monitor_turn(c) ==
    \/ \E output \in BOOLEAN : download_monitor_wait(c, output)
    \/ download_monitor_leave(c, "exit")
    \/ download_monitor_leave(c, "timeout")

NextLive ==
    \/ \E c \in Watched, id \in Uuids,
          how \in {"no_aria2", "spawn_error", "spawned"} :
           download_magnet_fast_start(c, id, how)
    \/ \E c \in Watched : download_magnet_fast_announce(c)
    \/ \E c \in Watched : download_monitor_turn(c)
    \/ \E c \in Watched : download_monitor_leave(c, "error")
    \/ \E c \in Watched, how \in {"exited", "timeout", "cancelled"} :
           download_grace_end(c, how)
    \/ \E c \in Watched, res \in {"success", "not_found", "critical_error"} :
           download_magnet_fast_return(c, res)
    \/ \E c \in Watched : download_magnet_fast_cancel(c)
    \/ \E c \in Watched, ok \in BOOLEAN : aria2c_exit(c, ok)
    \/ \E c \in Watched : aria2c_signalled(c)

\* Every await of the coroutine ends: followup.send and progress_msg.edit
\* return or raise (113, 170, 215, 232), wait_for has a timeout (150, 185),
\* sleep(2) ends (175); the code between two awaits does not block.
\* Nothing is assumed of aria2c: it need not exit, not even when signalled.
FairLive ==
    \A c \in Watched :
        /\ WF_vars(download_magnet_fast_announce(c))
        /\ WF_vars(download_monitor_turn(c))
        /\ WF_vars(\E how \in {"exited", "timeout"} : download_grace_end(c, how))
        /\ WF_vars(\E res \in {"success", "not_found", "critical_error"} :
                       download_magnet_fast_return(c, res))

SpecLive == Init /\ [][NextLive]_vars /\ FairLive

\* C32: a download whose process still runs when more than max_total_time
\* has passed is asked to terminate (unless the call was cancelled or the
\* process ended first), and every download call that was started ends,
\* whatever the aria2c process does.
C32_DownloadReturns ==
    \A c \in Watched :
        /\ (dpc[c] = "monitor" /\ dproc[c] = "running"
                /\ elapsed[c] > max_total_time)
               ~> (dterm[c] \/ dproc[c] # "running" \/ dresult[c] = "cancelled")
        /\ (dpc[c] # "idle") ~> (dpc[c] = "ended")

\* the budget was used up by a process that never exits by itself; it was
\* sent SIGTERM, the 10 s wait timed out, it was killed and the call ended
C32_Witness ==
    \E c \in Watched :
        /\ dpc[c] = "ended"
        /\ dwhy[c] = "timeout"
        /\ dterm[c] /\ dkill[c] /\ dgrace[c]
        /\ dproc[c] = "running"
        /\ dresult[c] = "not_found"

(***************************************************************************)
(* Termination of encode_single_pass: one call, its worker and its ffmpeg  *)
(* process, with the event loop and the executor thread running whenever   *)
(* they can go on.                                                         *)
(***************************************************************************)
\* the call that is followed
WatchedEncode == {1}

\* encoder.py:378: process.stderr.readline() returns '' at once when ffmpeg
\* has exited and its pipe is at end of file
readline_at_eof(c) ==
    /\ proc[c] # "running"
    /\ run_ffmpeg_process_read(c, <<"other">>)

NextEncLive ==
    \/ \E c \in WatchedEncode, u \in UserInfos, f \in BOOLEAN :
           encode_single_pass_admit(c, u, f)
    \/ \E c \in WatchedEncode : encode_single_pass_executor(c)
    \/ \E c \in WatchedEncode : encode_single_pass_finish(c)
    \/ \E c \in WatchedEncode : encode_single_pass_return(c)
    \/ \E c \in WatchedEncode : executor_take(c)
    \/ \E c \in WatchedEncode,
          how \in {"spawned", "input_error", "process_error"} :
           run_simple_encoding_start(c, how)
    \/ \E c \in WatchedEncode, line \in StderrLines :
           run_ffmpeg_process_read(c, line)
    \/ \E c \in WatchedEncode, o \in BOOLEAN : run_ffmpeg_process_poll(c, o)
    \/ \E c \in WatchedEncode, ok \in BOOLEAN : ffmpeg_exit(c, ok)
    \/ tick

\* The coroutine's awaits end (followup.send, sleep(15), progress_msg.edit)
\* and the worker thread runs.  readline on a running ffmpeg returns only
\* when ffmpeg writes a line, which nothing guarantees; nor does anything
\* guarantee that ffmpeg exits.
FairEncLive ==
    \A c \in WatchedEncode :
        /\ WF_vars(encode_single_pass_executor(c))
        /\ WF_vars(encode_single_pass_finish(c))
        /\ WF_vars(encode_single_pass_return(c))
        /\ WF_vars(executor_take(c))
        /\ WF_vars(\E how \in {"spawned", "input_error", "process_error"} :
                       run_simple_encoding_start(c, how))
        /\ WF_vars(readline_at_eof(c))
        /\ WF_vars(\E o \in BOOLEAN : run_ffmpeg_process_poll(c, o))

SpecEncLive == Init /\ [][NextEncLive]_vars /\ FairEncLive

\* C33: every admitted encode eventually returns a result and frees its
\* entry in active_encodes, also when ffmpeg goes on without exiting or
\* stops writing to stderr: the job is terminated when it exceeds a total
\* time budget.
C33_EncodeReturns ==
    \A c \in WatchedEncode :
        InFlight(c) ~> (pc[c] = "ended" /\ DOMAIN active_encodes = {})

(***************************************************************************)
(* self._lock of GoogleDriveUploader (uploader.py:93, 207-213) under two   *)
(* upload_with_progress calls on the one event-loop thread.  The transfer  *)
(* itself (215-389) is one step here.                                      *)
(***************************************************************************)
notLock == <<clock, encVars, dlVars, active_uploads, upc, upload_id, uresult,
             xferLocals, xferHistory, findVars, snapVars,
             active_downloads_info, output_file>>

\* a coroutine runs only while the event-loop thread is not sitting in a
\* blocking call
loop_runs == loop_blocked = 0

\* uploader.py:191-205: the call passes the file checks and enters the loop
lock_upload_with_progress_call(c) ==
    /\ loop_runs
    /\ lpc[c] = "idle"
    /\ lpc' = [lpc EXCEPT ![c] = "acquire"]
    /\ lattempt' = [lattempt EXCEPT ![c] = 0]
    /\ UNCHANGED <<self_lock, lresult, loop_blocked, service, notLock>>

\* uploader.py:207-213: 'with self._lock:' is threading.Lock.acquire(), a
\* call that blocks the calling thread until the lock is free.  With the
\* lock in hand and no service, authenticate() runs (auth: TRUE when it
\* succeeds); when it fails on the last attempt the return leaves the with
\* block, on an earlier attempt the coroutine suspends in
\* asyncio.sleep(2 ** attempt) inside the with block, the lock still held.
lock_acquire(c, auth) ==
    /\ loop_runs
    /\ lpc[c] = "acquire"
    /\ IF self_lock # 0
       THEN /\ loop_blocked' = c
            /\ UNCHANGED <<self_lock, lpc, lattempt, lresult, service>>
       ELSE /\ UNCHANGED <<loop_blocked, lattempt>>
            /\ IF service \/ auth
               THEN /\ service' = TRUE
                    /\ lpc' = [lpc EXCEPT ![c] = "transfer"]
                    /\ UNCHANGED <<self_lock, lresult>>
               ELSE IF lattempt[c] = default_max_retries - 1
               THEN /\ lpc' = [lpc EXCEPT ![c] = "ended"]
                    /\ lresult' = [lresult EXCEPT ![c] =
                           "authentication_failed_after_retries"]
                    /\ UNCHANGED <<self_lock, service>>
               ELSE /\ self_lock' = c
                    /\ lpc' = [lpc EXCEPT ![c] = "backoff"]
                    /\ UNCHANGED <<lresult, service>>
    /\ UNCHANGED notLock

\* uploader.py:212-213: the sleep ends, 'continue' leaves the with block
\* (the lock is released) and the next attempt begins
lock_backoff_end(c) ==
    /\ loop_runs
    /\ lpc[c] = "backoff"
    /\ self_lock' = IF self_lock = c THEN 0 ELSE self_lock
    /\ lattempt' = [lattempt EXCEPT ![c] = @ + 1]
    /\ lpc' = [lpc EXCEPT ![c] = "acquire"]
    /\ UNCHANGED <<lresult, loop_blocked, service, notLock>>

\* uploader.py:215-389: the transfer of the attempt.  outcome: "done" (a
\* result is returned), "401" (355-361: self.service = None, and a further
\* attempt after the sleep of 359 when this was not the last one).
lock_transfer(c, outcome) ==
    /\ loop_runs
    /\ lpc[c] = "transfer"
    /\ IF outcome = "401" /\ lattempt[c] < default_max_retries - 1
       THEN /\ service' = FALSE
            /\ lattempt' = [lattempt EXCEPT ![c] = @ + 1]
            /\ lpc' = [lpc EXCEPT ![c] = "acquire"]
            /\ UNCHANGED lresult
       ELSE /\ service' = IF outcome = "401" THEN FALSE ELSE service
            /\ lpc' = [lpc EXCEPT ![c] = "ended"]
            /\ lresult' = [lresult EXCEPT ![c] =
                   IF outcome = "401" THEN "authentication_failed" ELSE "done"]
            /\ UNCHANGED lattempt
    /\ UNCHANGED <<self_lock, loop_blocked, notLock>>

NextLock ==
    \/ \E c \in Uploads : lock_upload_with_progress_call(c)
    \/ \E c \in Uploads, auth \in BOOLEAN : lock_acquire(c, auth)
    \/ \E c \in Uploads : lock_backoff_end(c)
    \/ \E c \in Uploads, outcome \in {"done", "401"} : lock_transfer(c, outcome)

SpecLock == Init /\ [][NextLock]_vars

\* C34: no interleaving of two upload_with_progress calls blocks the event
\* loop: no call is suspended in its backoff sleep while it holds
\* self._lock, so the event-loop thread never sits in acquire() waiting for
\* a lock that only a suspended coroutine could release.
C34_EventLoopNeverBlocked ==
    /\ loop_blocked = 0
    /\ \A c \in Uploads : lpc[c] = "backoff" => self_lock # c

\* C35: at every moment each encode or upload job that was registered and
\* has not reached its own removal (526, 469) has an entry in its registry:
\* the completion of one job never removes the entry of another job that
\* is still running.
C35_RunningJobHasEntry ==
    /\ \A c \in Calls :
           pc[c] \in {"announce", "monitor"}
               => encode_id[c] \in DOMAIN active_encodes
    /\ \A c \in Uploads :
           upc[c] = "uploading" => upload_id[c] \in DOMAIN active_uploads

(***************************************************************************)
(* Two downloads into one output directory: bot.py:412-415 passes          *)
(* output_dir="downloads" to every call.  One call is followed; the        *)
(* aria2c process of the other one writes into the same directory.         *)
(***************************************************************************)
\* what the aria2c process of the other download writes: a finished file,
\* or one that is still being written (its size is the size so far)
WrittenByOther == [isfile : {TRUE}, size : Sizes, age : {1}, made : {"other"}]

\* downloader.py:65 "--dir=" + output_dir, for the other download's process
other_aria2c_writes(f, file) ==
    /\ fpc \in {"running", "exited"}
    /\ f \notin DOMAIN output_dir
    /\ Cardinality(DOMAIN output_dir) < MaxFiles
    /\ output_dir' = [g \in DOMAIN output_dir \cup {f} |->
                         IF g = f THEN dir_entry(f, file) ELSE output_dir[g]]
    /\ UNCHANGED <<custom_name, fpc, return_code, result_file, fresult,
                   notFind>>

NextShare ==
    \/ \E name \in CustomNames : download_magnet_fast_call(name)
    \/ \E f \in FileNames, file \in Written : aria2c_writes(f, file)
    \/ \E f \in FileNames, file \in WrittenByOther :
           other_aria2c_writes(f, file)
    \/ \E code \in ExitCodes : aria2c_returns(code)
    \/ \E fs \in {"ok", "listdir_fails", "remove_fails", "rename_fails"} :
           download_magnet_fast_resolve(fs)

SpecShare == Init /\ [][NextShare]_vars

\* C36: with two downloads running into the same output directory, the
\* file a call resolves, renames to its custom_name and reports as its
\* result was written by its own aria2c process, never by the other one's.
C36_ResolvedFileIsOwn ==
    (fpc = "ended" /\ result_file # None)
        => output_dir[result_file].made = "job"

\* 2 ** n
Pow2(n) == IF n = 0 THEN 1 ELSE IF n = 1 THEN 2 ELSE IF n = 2 THEN 4 ELSE 8

\* uploader.py:349-387: the seconds upload_with_progress sleeps between
\* the failure err of attempt att and the next attempt: 2 ** attempt at
\* 359 (401), 366 (status >= 500) and 383 (an exception with a network word
\* in its text); no sleep for any other exception, which falls out of the
\* handler at 386-387 into the next turn of the for loop
attempt_sleep(err, att, retries) ==
    IF err \in {"401", "503", "501", "network"} /\ att < retries - 1
    THEN Pow2(att)
    ELSE 0

\* the failures the handlers of 349-387 mean to try again
Retryable == {"401", "503", "501", "network"}

\* C37: upload_with_progress starts a further transfer attempt only after
\* a retryable failure (HTTP 401, HTTP 5xx, a network-class exception) and
\* only after a backoff sleep of 2^attempt seconds; after any other failure
\* it starts no further attempt, and it never starts more than max_retries
\* attempts.
C37_RetryOnlyRetryable ==
    [][(xpc = "chunk" /\ xpc' = "attempt")
       => (/\ chunk_error' \in Retryable
           /\ attempt_sleep(chunk_error', attempt, max_retries) = Pow2(attempt)
           /\ attempt' < max_retries)]_vars

(***************************************************************************)
(* The result of _run_simple_encoding (encoder.py:324-361) for one call,   *)
(* with the output file ffmpeg writes.                                     *)
(***************************************************************************)
\* sizes of the output file, in bytes, around the limit of line 340
OutputSizes == {0, min_output_size, min_output_size + 1}

\* a size test that lets the limit itself pass
output_ok_ge(size) == size >= min_output_size

\* encoder.py:336-340  os.path.exists(output_path) and file_size > 10240
output_ok(size) == size > min_output_size

\* ffmpeg writes its output file (the last argument of the command,
\* encoder.py:319), also when it fails later
ffmpeg_writes_output(c, size) ==
    /\ proc[c] = "running"
    /\ output_file[c] = -1
    /\ output_file' = [output_file EXCEPT ![c] = size]
    /\ UNCHANGED <<clock, encVars, dlVars, upVars, findVars, snapVars,
                   active_downloads_info, lockVars>>

NextResult ==
    \/ \E c \in WatchedEncode, u \in UserInfos, f \in BOOLEAN :
           encode_single_pass_admit(c, u, f)
    \/ \E c \in WatchedEncode : encode_single_pass_executor(c)
    \/ \E c \in WatchedEncode : encode_single_pass_finish(c)
    \/ \E c \in WatchedEncode : encode_single_pass_return(c)
    \/ \E c \in WatchedEncode : executor_take(c)
    \/ \E c \in WatchedEncode,
          how \in {"spawned", "input_error", "process_error"} :
           run_simple_encoding_start(c, how)
    \/ \E c \in WatchedEncode, line \in StderrLines :
           run_ffmpeg_process_read(c, line)
    \/ \E c \in WatchedEncode :
           run_ffmpeg_process_poll(c, output_ok(output_file[c]))
    \/ \E c \in WatchedEncode : run_ffmpeg_process_except(c)
    \/ \E c \in WatchedEncode, ok \in BOOLEAN : ffmpeg_exit(c, ok)
    \/ \E c \in WatchedEncode : ffmpeg_signalled(c)
    \/ \E c \in WatchedEncode, size \in OutputSizes :
           ffmpeg_writes_output(c, size)
    \/ \E id \in AllIds : stop_encode_flag(id)
    \/ tick

SpecResult == Init /\ [][NextResult]_vars

Submitters == <<  <<"a","l","i">>, <<"b","e","n">>, <<"c","e","m">>,
                  <<"d","e","f","n","e">>  >>

\* who issues call c: the first user again, or a user who has no job yet
SubmitterOf(c) == {Submitters[1], Submitters[c]}

SubmittedIds ==
    {EncodeId(t, Submitters[c]) : t \in Seconds, c \in DOMAIN Submitters}

NextCount ==
    \/ \E c \in Calls : \E u \in SubmitterOf(c), f \in BOOLEAN :
           encode_single_pass_admit(c, u, f)
    \/ \E c \in Calls : encode_single_pass_executor(c)
    \/ \E c \in Calls : encode_single_pass_finish(c)
    \/ \E c \in Calls : encode_single_pass_return(c)
    \/ \E c \in Calls : executor_take(c)
    \/ \E c \in Calls, res \in {"success", "stopped"} :
           run_simple_encoding(c, res)
    \/ \E id \in SubmittedIds : stop_encode_flag(id)

SpecCount == Init /\ [][NextCount]_vars

\* C39: the number of entries in active_encodes is between 0 and
\* max_concurrent_encodes in every reachable state, for any interleaving of
\* encode_single_pass calls, stop_encode calls and job completions.
C39_EntriesWithinLimit ==
    get_active_encode_count \in 0..max_concurrent_encodes

\* three jobs with three different ids fill the registry, one of them
\* flagged as stopped, and the fourth call was turned away
C39_Witness ==
    /\ get_active_encode_count = max_concurrent_encodes
    /\ Cardinality({c \in Calls : InFlight(c)}) = max_concurrent_encodes
    /\ \E id \in DOMAIN active_encodes : IsStopped(id)
    /\ \E c \in Calls : result[c] = "limit"

====
